---- MODULE Spec2Model ----
(***************************************************************************)
(* A model of the hypothetical constant folder of llpe:                    *)
(*   lib/Analysis/Integrator/HypotheticalConstantFolder.cpp                *)
(* The lattice value attached to an instruction in a context is a          *)
(* PointerBase: a category (Type), a set of candidate values (Values) and  *)
(* the Overdef flag.  The evaluators are operators over these values; the  *)
(* per-context cache and the calls of tryEvaluate are the state machine.   *)
(***************************************************************************)
EXTENDS Integers, Sequences, FiniteSets, TLC

VARIABLES
    PB,        \* the cache: PB[ctx][v] is SI->i.PB / SA->i.PB of value v in context ctx
    region,    \* the part of the program the solver was started on
    analyser,  \* whether the solver's run has a loop analyser (LPBA) attached
    phase,     \* the solver's phase: "optimistic", "finalising" or "done"
    cursor,    \* the position of the finalising pass in the region's work order
    fin,       \* the operands handed to an evaluator that is applied on its own
    fout,      \* what that evaluator returned
    walk,      \* the forward walk of tryKillWriterTo: its paths, bitmaps and verdict
    dead,      \* dead[c]: contextIsDead of context c of the context tree
    enabled,   \* the enabled flags of the peel attempt and of the inline attempt
    deadEdges  \* the edges <<ctx, from, to>> known to be dead in context ctx

vars == <<PB, region, analyser, phase, cursor, fin, fout, walk, dead, enabled,
          deadEdges>>

\* No forward walk has been started.
NoWalk == [phase |-> "none"]

(***************************************************************************)
(* Bounds of the model.                                                    *)
(***************************************************************************)
\* Offsets are signed OffBits-bit integers (int64_t in the source).
OffBits == 6
\* ConstantInt operands of the evaluators applied on their own have 1..MaxWidth bits.
MaxWidth == 3
\* Number of candidate (base, offset) pairs drawn for a Pointer-Base set.
NumCands == 3

\* LLONG_MAX at the model's offset width: the "indeterminate offset" sentinel.
LLONG_MAX == 2^(OffBits - 1) - 1
LLONG_MIN == -(2^(OffBits - 1))
OffRange == LLONG_MIN..LLONG_MAX

\* (int64_t) of an integer: two's complement wrap-around at the offset width.
wrapOff(n) == ((n - LLONG_MIN) % 2^OffBits) + LLONG_MIN

(***************************************************************************)
(* ShadowValue, ImprovedVal, PointerBase.                                  *)
(***************************************************************************)
\* A ShadowValue that is not an instruction of the analysed program is a pair
\* <<kind, n>>: a ConstantInt ("ci", its bit pattern), the null pointer, a
\* global, a function, an allocation site, a file descriptor's open call, the
\* base of a variadic frame, or the invalid value ShadowValue().
InvalV == <<"inval", 0>>
NullV == <<"null", 0>>
CI(n) == <<"ci", n>>
GlobalV(n) == <<"glob", n>>
AllocaV(n) == <<"alloca", n>>
ArgV(n) == <<"argptr", n>>

ImprovedVal(v, off) == [V |-> v, Offset |-> off]
InvalIV == ImprovedVal(InvalV, 0)

\* PointerBase(): nothing known yet.
Unknown == [Type |-> "Unknown", Values |-> {}, Overdef |-> FALSE]
\* PointerBase::getOverdef()
OverdefPB == [Type |-> "Overdef", Values |-> {}, Overdef |-> TRUE]
\* PointerBase(T) followed by insert(iv)
MkPB(T, iv) == [Type |-> T, Values |-> {iv}, Overdef |-> FALSE]
ScalarPB(n) == MkPB("Scalar", ImprovedVal(CI(n), 0))
PtrPB(v, off) == MkPB("PB", ImprovedVal(v, off))

isInitialised(pb) == pb.Overdef \/ pb.Values # {}

\* The size threshold of a candidate set.
PBMAX == 2

\* PointerBase::merge: a.merge(b).  Unknown is the identity, Overdef absorbs,
\* two different categories give Overdef, two Pointer-Base sets are united and
\* collapse to Overdef past PBMAX candidates, the other categories hold one
\* value and two different values give Overdef.
merge(a, b) ==
    IF ~isInitialised(b) THEN a
    ELSE IF ~isInitialised(a) THEN b
    ELSE IF a.Overdef \/ b.Overdef THEN OverdefPB
    ELSE IF a.Type # b.Type THEN OverdefPB
    ELSE IF a.Type = "PB"
         THEN LET u == a.Values \cup b.Values
              IN  IF Cardinality(u) > PBMAX THEN OverdefPB
                  ELSE [a EXCEPT !.Values = u]
    ELSE IF a.Values = b.Values THEN a
    ELSE OverdefPB

(***************************************************************************)
(* Constants and types, as the evaluators see them.                        *)
(***************************************************************************)
\* ShadowValue::getVal() is non-null for a value that is not a shadow
\* instruction or argument; dyn_cast<Constant> of it succeeds for these kinds.
isConstantV(v) == v[1] \in {"ci", "null", "glob", "fn"}
isConstantInt(v) == v[1] = "ci"
\* Constant::isNullValue()
isNullValue(v) == v[1] = "null" \/ (v[1] = "ci" /\ v[2] = 0)
\* ShadowValue::getType()->isPointerTy()
isPointerTy(v) == v[1] \in {"null", "glob", "fn", "alloca", "argptr"}
isFunctionV(v) == v[1] = "fn"
\* isGlobalIdentifiedObject: allocation sites and globals are identified objects.
isGlobalIdentifiedObject(v) == v[1] \in {"glob", "alloca"}

\* ConstantInt::getSExtValue() / getZExtValue() of the bit pattern n at width w.
SExt(n, w) == IF n >= 2^(w - 1) THEN n - 2^w ELSE n
ZExt(n, w) == n
\* ConstantInt::isAllOnesValue, isMaxValue(true), isMinValue(true)
isAllOnesValue(n, w) == n = 2^w - 1
isMaxSigned(n, w) == n = 2^(w - 1) - 1
isMinSigned(n, w) == n = 2^(w - 1)

IntPreds == {"EQ", "NE", "UGT", "UGE", "ULT", "ULE", "SGT", "SGE", "SLT", "SLE"}
\* One floating-point predicate stands for those outside the ICMP range.
AllPreds == IntPreds \cup {"OEQ"}

\* The comparison of two integers under the order a predicate names.
cmpInts(pred, a, b) ==
    CASE pred \in {"EQ", "OEQ"} -> a = b
      [] pred = "NE" -> a # b
      [] pred \in {"UGT", "SGT"} -> a > b
      [] pred \in {"UGE", "SGE"} -> a >= b
      [] pred \in {"ULT", "SLT"} -> a < b
      [] pred \in {"ULE", "SLE"} -> a <= b

isSignedPred(pred) == pred \in {"SGT", "SGE", "SLT", "SLE"}

\* ConstantFoldCompareInstOperands on two ConstantInts of width w.
icmpFold(pred, a, b, w) ==
    IF isSignedPred(pred) THEN cmpInts(pred, SExt(a, w), SExt(b, w))
    ELSE cmpInts(pred, a, b)

\* ConstantInt::getTrue / getFalse as a ShadowValue.
BoolV(b) == CI(IF b THEN 1 ELSE 0)

getSignedPred(Pred) ==
    CASE Pred = "UGT" -> "SGT"
      [] Pred = "UGE" -> "SGE"
      [] Pred = "ULT" -> "SLT"
      [] Pred = "ULE" -> "SLE"
      [] OTHER -> Pred

\* A faulty variant of getReversePred: the strictness is swapped as well.
getReversePredNegated(Pred) ==
    CASE Pred = "UGT" -> "ULE"
      [] Pred = "ULT" -> "UGE"
      [] Pred = "UGE" -> "ULT"
      [] Pred = "ULE" -> "UGT"
      [] Pred = "SGT" -> "SLE"
      [] Pred = "SLT" -> "SGE"
      [] Pred = "SGE" -> "SLT"
      [] Pred = "SLE" -> "SGT"
      [] OTHER -> "BAD"

getReversePred(Pred) ==
    CASE Pred = "UGT" -> "ULT"
      [] Pred = "ULT" -> "UGT"
      [] Pred = "UGE" -> "ULE"
      [] Pred = "ULE" -> "UGE"
      [] Pred = "SGT" -> "SLT"
      [] Pred = "SLT" -> "SGT"
      [] Pred = "SGE" -> "SLE"
      [] Pred = "SLE" -> "SGE"
      [] OTHER -> "BAD"

\* What a folding helper hands back: whether it handled the instruction, and
\* the (ImpType, Improved) pair it leaves behind.
Fold(h, t, iv) == [handled |-> h, ImpType |-> t, Improved |-> iv]
NoFold(t) == Fold(FALSE, t, InvalIV)

\* tryFoldNonConstCmp.  I.pred is the predicate, I.width the operands' width;
\* t0 is ImpType on entry.
tryFoldNonConstCmp(I, Ops, t0) ==
    IF I.pred \notin IntPreds THEN NoFold(t0)
    ELSE IF I.pred \in {"EQ", "NE"} THEN NoFold(t0)
    ELSE
    LET v0 == Ops[1].second.V
        v1 == Ops[2].second.V
        Op0C == isConstantV(v0)
        Op1C == isConstantV(v1)
    IN  IF Op0C = Op1C THEN NoFold(t0)
        ELSE
        LET swap == ~Op1C
            C == IF swap THEN v0 ELSE v1
            Pred == IF swap THEN getReversePred(I.pred) ELSE I.pred
            isCI == isConstantInt(C)
            w == I.width
            yes == Fold(TRUE, "Scalar", ImprovedVal(BoolV(TRUE), 0))
            no == Fold(TRUE, "Scalar", ImprovedVal(BoolV(FALSE), 0))
        IN  CASE Pred = "UGT" /\ isCI /\ isAllOnesValue(C[2], w) -> no
              [] Pred = "UGE" /\ isNullValue(C) -> yes
              [] Pred = "ULT" /\ isNullValue(C) -> no
              [] Pred = "ULE" /\ isCI /\ isAllOnesValue(C[2], w) -> yes
              [] Pred = "SGT" /\ isCI /\ isMaxSigned(C[2], w) -> no
              [] Pred = "SGE" /\ isCI /\ isMinSigned(C[2], w) -> yes
              [] Pred = "SLT" /\ isCI /\ isMinSigned(C[2], w) -> no
              [] Pred = "SLE" /\ isCI /\ isMaxSigned(C[2], w) -> yes
              [] OTHER -> NoFold("Unknown")

\* A faulty variant of tryFoldPointerCmp's third rule: the two answers are swapped.
foldDistinctBasesSwapped(pred, t0) ==
    IF pred = "EQ" THEN Fold(TRUE, "Scalar", ImprovedVal(BoolV(TRUE), 0))
    ELSE IF pred = "NE" THEN Fold(TRUE, "Scalar", ImprovedVal(BoolV(FALSE), 0))
    ELSE NoFold(t0)

\* tryFoldPointerCmp, rule 3: two different identified objects.
foldDistinctBases(pred, t0) ==
    IF pred = "EQ" THEN Fold(TRUE, "Scalar", ImprovedVal(BoolV(FALSE), 0))
    ELSE IF pred = "NE" THEN Fold(TRUE, "Scalar", ImprovedVal(BoolV(TRUE), 0))
    ELSE NoFold(t0)

\* tryFoldPointerCmp.
tryFoldPointerCmp(I, Ops, t0) ==
    IF \/ Ops[1].first \notin {"Scalar", "PB"}
       \/ Ops[2].first \notin {"Scalar", "PB"}
    THEN NoFold(t0)
    ELSE
    LET op0 == Ops[1].second.V
        op1 == Ops[2].second.V
        op0C == isConstantV(op0)
        op1C == isConstantV(op1)
        \* 0 for a null constant, 1 for an identified pointer or function, -1 for neither
        arg(op, opC) ==
            IF opC /\ isNullValue(op) THEN 0
            ELSE IF isPointerTy(op) /\ (isGlobalIdentifiedObject(op) \/ (opC /\ isFunctionV(op)))
                 THEN 1
            ELSE -1
        op0Arg == arg(op0, op0C)
        op1Arg == arg(op1, op1C)
    IN  IF op0Arg # -1 /\ op1Arg # -1 /\ (op0Arg = 0 \/ op1Arg = 0)
        THEN Fold(TRUE, "Scalar", ImprovedVal(BoolV(cmpInts(I.pred, op0Arg, op1Arg)), 0))
        ELSE IF Ops[1].first # "PB" \/ Ops[2].first # "PB" THEN NoFold(t0)
        ELSE IF op0 = op1
             THEN IF Ops[1].second.Offset = LLONG_MAX \/ Ops[2].second.Offset = LLONG_MAX
                  THEN NoFold(t0)
                  ELSE Fold(TRUE, "Scalar",
                            ImprovedVal(BoolV(cmpInts(getSignedPred(I.pred),
                                                      Ops[1].second.Offset,
                                                      Ops[2].second.Offset)), 0))
        ELSE IF isGlobalIdentifiedObject(op0) /\ isGlobalIdentifiedObject(op1) /\ op0 # op1
             THEN foldDistinctBases(I.pred, t0)
        ELSE NoFold(t0)

(***************************************************************************)
(* The type layout (DataLayout) of the types the model indexes.            *)
(***************************************************************************)
\* i8, i32, i64, S = { i32, i32, i64 }, A = [4 x i32] and AS = [2 x S].
TypeNames == {"i8", "i32", "i64", "S", "A", "AS"}
isStructTy(t) == t = "S"
\* DataLayout::getTypeAllocSize
getTypeAllocSize(t) ==
    CASE t = "i8" -> 1
      [] t = "i32" -> 4
      [] t = "i64" -> 8
      [] t = "S" -> 16
      [] t = "A" -> 16
      [] t = "AS" -> 32
\* StructLayout::getElementOffset: field 2 of S is placed at byte 8.
getElementOffset(t, i) == <<0, 4, 8>>[i + 1]
StructNumElements(t) == 3
\* The type a struct field or a sequential element has.
getStructElementTy(t, i) == <<"i32", "i32", "i64">>[i + 1]
getSequentialElementTy(t) == IF t = "A" THEN "i32" ELSE IF t = "AS" THEN "S" ELSE "i8"
isAggregateTy(t) == t \in {"S", "A", "AS"}

\* A faulty variant of gepIndexOffset: an array index is read zero-extended.
gepIndexOffsetZExt(cur, n, w) ==
    IF cur.struct THEN getElementOffset(cur.ty, ZExt(n, w))
    ELSE ZExt(n, w) * getTypeAllocSize(cur.elem)

\* What one non-zero index adds: a struct index (read zero-extended) adds the
\* field's offset, a sequential one (read sign-extended) its multiple of the
\* element's allocation size.  cur is the position of the gep_type_iterator.
gepIndexOffset(cur, n, w) ==
    IF cur.struct THEN getElementOffset(cur.ty, ZExt(n, w))
    ELSE SExt(n, w) * getTypeAllocSize(cur.elem)

\* The gep_type_iterator: at the start it stands on the pointer operand's type,
\* a sequential type whose element is the pointee.
gepTypeBegin(t) == [struct |-> FALSE, ty |-> "ptr", elem |-> t]
\* ++GTI after an index of value n (zero-extended).
gepTypeNext(cur, n) ==
    LET t == IF cur.struct THEN getStructElementTy(cur.ty, n) ELSE cur.elem
    IN  [struct |-> isStructTy(t), ty |-> t, elem |-> getSequentialElementTy(t)]

\* The loop of tryEvaluateResult over the indices of a GEP: Ops[i] for i from
\* the first index on, Offset the offset accumulated so far.
RECURSIVE gepAccumulate(_, _, _, _, _)
gepAccumulate(Ops, i, cur, w, Offset) ==
    IF i > Len(Ops) THEN Offset
    ELSE IF Ops[i].first # "Scalar" THEN LLONG_MAX
    ELSE LET n == Ops[i].second.V[2]
         IN  IF n = 0 THEN gepAccumulate(Ops, i + 1, gepTypeNext(cur, n), w, Offset)
             ELSE gepAccumulate(Ops, i + 1, gepTypeNext(cur, n), w,
                                wrapOff(Offset + gepIndexOffset(cur, n, w)))

\* tryEvaluateResult, the GetElementPtrInst case with a Pointer-Base base.
gepPointerBase(I, Ops) ==
    IF Ops[1].second.Offset # LLONG_MAX
    THEN Fold(TRUE, "PB",
              ImprovedVal(Ops[1].second.V,
                          gepAccumulate(Ops, 2, gepTypeBegin(I.srcTy), I.width,
                                        Ops[1].second.Offset)))
    ELSE Fold(TRUE, "PB", Ops[1].second)

(***************************************************************************)
(* Pointers used as integers, bitwise identities.                          *)
(***************************************************************************)
\* The bit pattern of an integer at width w (ConstantInt::get / getSigned).
toPattern(n, w) == n % 2^w

RECURSIVE bitAnd(_, _)
bitAnd(a, b) ==
    IF a = 0 \/ b = 0 THEN 0
    ELSE (a % 2) * (b % 2) + 2 * bitAnd(a \div 2, b \div 2)

\* The static alignment of an object (GlobalValue / AllocaInst ::getAlignment).
getAlignment(v) == IF v[1] \in {"glob", "alloca"} THEN 4 ELSE 0

\* A faulty variant of adjustOffset: the constant is taken as unsigned.
adjustOffsetZExt(Offset, C, w, sign) ==
    IF Offset = LLONG_MAX \/ ~isConstantInt(C) THEN LLONG_MAX
    ELSE wrapOff(Offset + sign * ZExt(C[2], w))

\* tryFoldPtrAsIntOp, the new offset of a pointer that the value C of w bits
\* is added to (sign 1) or subtracted from (sign -1).
adjustOffset(Offset, C, w, sign) ==
    IF Offset = LLONG_MAX \/ ~isConstantInt(C) THEN LLONG_MAX
    ELSE wrapOff(Offset + sign * SExt(C[2], w))

\* tryFoldPtrAsIntOp.
tryFoldPtrAsIntOp(I, Ops, t0) ==
    LET Op0Ptr == Ops[1].first = "PB"
        Op1Ptr == Ops[2].first = "PB"
        v0 == Ops[1].second
        v1 == Ops[2].second
    IN  IF ~I.intTy THEN NoFold(t0)
        ELSE IF I.op \notin {"sub", "and", "add"} THEN NoFold(t0)
        ELSE IF ~Op0Ptr /\ ~Op1Ptr THEN NoFold(t0)
        ELSE IF I.op = "sub"
        THEN IF ~Op0Ptr THEN NoFold(t0)
             ELSE IF ~Op1Ptr
             THEN Fold(TRUE, "PB", ImprovedVal(v0.V, adjustOffset(v0.Offset, v1.V, I.width, -1)))
             ELSE IF v0.V = v1.V /\ v0.Offset # LLONG_MAX /\ v1.Offset # LLONG_MAX
             THEN Fold(TRUE, "Scalar",
                       ImprovedVal(CI(toPattern(wrapOff(v0.Offset - v1.Offset), I.width)), 0))
             ELSE NoFold(t0)
        ELSE IF I.op = "add"
        THEN IF Op0Ptr /\ Op1Ptr THEN NoFold(t0)
             ELSE LET PtrV == IF Op0Ptr THEN v0 ELSE v1
                      NumV == IF Op0Ptr THEN v1.V ELSE v0.V
                  IN  Fold(TRUE, "PB",
                           ImprovedVal(PtrV.V, adjustOffset(PtrV.Offset, NumV, I.width, 1)))
        ELSE IF ~Op0Ptr \/ Op1Ptr THEN NoFold(t0)
        ELSE IF ~isConstantInt(v1.V) THEN NoFold(t0)
        ELSE IF v0.Offset = LLONG_MAX \/ v0.Offset < 0 THEN NoFold(t0)
        ELSE IF getAlignment(v0.V) > v1.V[2]
             THEN Fold(TRUE, "Scalar",
                       ImprovedVal(CI(toPattern(bitAnd(v1.V[2], v0.Offset), I.width)), 0))
        ELSE NoFold(t0)

\* tryFoldBitwiseOp.
tryFoldBitwiseOp(I, Ops, t0) ==
    LET c0 == Ops[1].second.V
        c1 == Ops[2].second.V
        Op0C == isConstantV(c0)
        Op1C == isConstantV(c1)
    IN  IF I.op \notin {"and", "or"} THEN NoFold(t0)
        ELSE IF I.op = "and"
        THEN IF (Op0C /\ isNullValue(c0)) \/ (Op1C /\ isNullValue(c1))
             THEN Fold(TRUE, "Scalar", ImprovedVal(CI(0), 0))
             ELSE NoFold(t0)
        ELSE IF \/ (isConstantInt(c0) /\ isAllOnesValue(c0[2], I.width))
                \/ (isConstantInt(c1) /\ isAllOnesValue(c1[2], I.width))
             THEN Fold(TRUE, "Scalar", ImprovedVal(CI(2^I.width - 1), 0))
        ELSE NoFold(t0)

(***************************************************************************)
(* Comparisons against a symbolic file descriptor.                         *)
(***************************************************************************)
\* ShadowValue::getInst() is non-null for a value that is a shadow instruction.
isInstV(v) == v[1] \in {"fd", "alloca", "vararg"}

\* The table of getOpenCmpResult: the file descriptor, which is not
\* negative, compared with CmpVal under Pred.
openCmpTable(Pred, CmpVal) ==
    CASE Pred = "EQ" /\ CmpVal < 0 -> BoolV(FALSE)
      [] Pred = "NE" /\ CmpVal < 0 -> BoolV(TRUE)
      [] Pred = "SGT" /\ CmpVal < 0 -> BoolV(TRUE)
      [] Pred = "SGE" /\ CmpVal <= 0 -> BoolV(TRUE)
      [] Pred = "SLT" /\ CmpVal <= 0 -> BoolV(FALSE)
      [] Pred = "SLE" /\ CmpVal < 0 -> BoolV(FALSE)
      [] OTHER -> InvalV

\* A faulty variant of getOpenCmpResult: the predicate is not flipped.
getOpenCmpResultNoFlip(pred, n, w, flip) ==
    IF w > 64 THEN InvalV ELSE openCmpTable(pred, SExt(n, w))

\* getOpenCmpResult: the folded truth value as a ShadowValue, or ShadowValue().
getOpenCmpResult(pred, n, w, flip) ==
    IF w > 64 THEN InvalV
    ELSE openCmpTable(IF flip
                      THEN CASE pred = "SGT" -> "SLT"
                             [] pred = "SGE" -> "SLE"
                             [] pred = "SLT" -> "SGT"
                             [] pred = "SLE" -> "SGE"
                             [] OTHER -> pred
                      ELSE pred,
                      SExt(n, w))

\* tryFoldOpenCmp.
tryFoldOpenCmp(I, Ops, t0) ==
    LET op0 == Ops[1].second.V
        op1 == Ops[2].second.V
        first == isInstV(op0) /\ Ops[1].first = "FD"
        second == isInstV(op1) /\ Ops[2].first = "FD"
        other == IF first THEN op1 ELSE op0
        CmpIntType == IF first THEN Ops[2].first ELSE Ops[1].first
    IN  IF Ops[1].first # "FD" /\ Ops[2].first # "FD" THEN NoFold(t0)
        ELSE IF ~first /\ ~second THEN NoFold(t0)
        ELSE IF isConstantInt(other)
             THEN LET r == getOpenCmpResult(I.pred, other[2], I.width, ~first)
                  IN  IF r # InvalV THEN Fold(TRUE, "Scalar", ImprovedVal(r, 0))
                      ELSE Fold(TRUE, "Overdef", InvalIV)
        ELSE Fold(TRUE, IF CmpIntType = "Unknown" THEN "Unknown" ELSE "Overdef", InvalIV)

(***************************************************************************)
(* Ordinary constant folding and tryEvaluateResult.                        *)
(***************************************************************************)
bitOr(a, b) == a + b - bitAnd(a, b)

\* ConstantFoldInstOperands / ConstantFoldCompareInstOperands on constant
\* operands: the folded ConstantInt, or InvalV when the folder returns null or
\* only wraps a constant expression around operands that are not integers.
\* A cast of a ConstantInt to an integer type is the ConstantInt at the new
\* width (the constants of the model are below 2^32), to a pointer type the
\* inttoptr expression the filter accepts.
ConstantFold(I, Ops) ==
    IF \E i \in 1..Len(Ops) : ~isConstantInt(Ops[i].second.V) \/ Ops[i].first # "Scalar"
    THEN InvalV
    ELSE LET a == Ops[1].second.V[2]
             b == Ops[2].second.V[2]
             w == I.width
         IN  CASE I.op = "add" -> CI((a + b) % 2^w)
               [] I.op = "sub" -> CI((a - b) % 2^w)
               [] I.op = "mul" -> CI((a * b) % 2^w)
               [] I.op = "and" -> CI(bitAnd(a, b))
               [] I.op = "or" -> CI(bitOr(a, b))
               [] I.op = "icmp" -> BoolV(icmpFold(I.pred, a, b, w))
               [] I.op = "cast" ->
                     IF I.destTy \in {"i8", "i32", "i64"}
                     THEN CI(IF I.destTy = "i8" THEN a % 2^8 ELSE a)
                     ELSE <<"inttoptr", a>>
               [] OTHER -> InvalV

\* A faulty variant of genericFold: an operand without a value is looked for
\* before any operand is given up on.
genericFoldUnknownFirst(I, Ops) ==
    IF \E i \in 1..Len(Ops) : Ops[i].first = "Unknown" THEN Fold(TRUE, "Unknown", InvalIV)
    ELSE IF \E i \in 1..Len(Ops) : Ops[i].first # "Scalar" THEN Fold(TRUE, "Overdef", InvalIV)
    ELSE LET c == ConstantFold(I, Ops)
         IN  IF c # InvalV THEN Fold(TRUE, "Scalar", ImprovedVal(c, 0))
             ELSE Fold(TRUE, "Overdef", InvalIV)

\* tryEvaluateResult from "Try ordinary constant folding?" on.
genericFold(I, Ops) ==
    LET nullBased(i) == /\ Ops[i].first = "PB"
                        /\ isConstantV(Ops[i].second.V)
                        /\ isNullValue(Ops[i].second.V)
        gaveUp == \E i \in 1..Len(Ops) :
                     ~nullBased(i) /\ Ops[i].first \notin {"Scalar", "Unknown"}
        allOpsAvailable == \A i \in 1..Len(Ops) : nullBased(i) \/ Ops[i].first # "Unknown"
    IN  IF gaveUp THEN Fold(TRUE, "Overdef", InvalIV)
        ELSE IF ~allOpsAvailable THEN Fold(TRUE, "Unknown", InvalIV)
        ELSE LET c == ConstantFold(I, Ops)
             IN  IF c # InvalV THEN Fold(TRUE, "Scalar", ImprovedVal(c, 0))
                 ELSE Fold(TRUE, "Overdef", InvalIV)

\* The types an FD may be cast between.
fdCastTy(t) == t \in {"i32", "i64", "ptr"}

\* A chain of helpers: the first that handles the instruction decides.
orElse(a, b) == IF a.handled THEN a ELSE b

\* tryEvaluateResult, the helpers tried before ordinary constant folding: on
\* a comparison tryFoldOpenCmp, tryFoldPointerCmp (icmp only) and
\* tryFoldNonConstCmp, on a binary operator tryFoldPtrAsIntOp and
\* tryFoldBitwiseOp.
specialFold(I, Ops, t0) ==
    IF I.op \in {"icmp", "fcmp"}
    THEN orElse(tryFoldOpenCmp(I, Ops, t0),
                orElse(IF I.op = "icmp" THEN tryFoldPointerCmp(I, Ops, t0) ELSE NoFold(t0),
                       tryFoldNonConstCmp(I, Ops, t0)))
    ELSE IF I.op \in {"add", "sub", "and", "or"}
    THEN orElse(tryFoldPtrAsIntOp(I, Ops, t0), tryFoldBitwiseOp(I, Ops, t0))
    ELSE NoFold(t0)

\* tryEvaluateResult on a GEP whose base is a VarArg value.  The Offset of a
\* VarArg value is va_baseptr for the base of the frame, a slot number below
\* first_fp_arg for an integer or pointer argument and one from first_fp_arg
\* on for a floating-point argument.  The called function has no named
\* argument in the frame (getInitialBytesOnStack and getInitialFPBytesOnStack
\* are 0); I.spilledAfter is what getSpilledVarargAfter answers.  Where the
\* source assigns neither ImpType nor Improved, they are what the caller
\* passed in (t0 and a default-constructed ImprovedVal).
gepVarArg(I, Ops, t0) ==
    LET not_va_arg == -1
        va_baseptr == -2
        first_fp_arg == 64
        GEPOff == Ops[2].second.V[2] \div 8
        newVaArg ==
           IF Ops[1].second.Offset = va_baseptr
           THEN IF GEPOff < 6 THEN GEPOff
                ELSE IF GEPOff < 22 THEN ((GEPOff - 6) \div 2) + first_fp_arg
                ELSE not_va_arg
           ELSE I.spilledAfter
    IN  IF Len(Ops) # 2 THEN Fold(TRUE, t0, InvalIV)
        ELSE IF Ops[2].first # "Scalar"
        THEN Fold(TRUE, IF Ops[2].first = "Unknown" THEN "Unknown" ELSE "Overdef", InvalIV)
        ELSE IF newVaArg # not_va_arg
        THEN Fold(TRUE, "VarArg", ImprovedVal(Ops[1].second.V, newVaArg))
        ELSE Fold(TRUE, t0, InvalIV)

\* tryEvaluateResult: the (ImpType, Improved) pair of instruction I on the
\* operand values Ops.
tryEvaluateResult(I, Ops, t0) ==
    IF I.op = "alloca" \/ (I.op = "call" /\ I.noAlias)
    THEN Fold(TRUE, "PB", ImprovedVal(I.self, 0))
    ELSE IF I.op = "cast" /\ Ops[1].first = "FD" /\ ~(fdCastTy(I.srcTy) /\ fdCastTy(I.destTy))
    THEN Fold(TRUE, "Overdef", InvalIV)
    ELSE IF I.op = "cast" /\ Ops[1].first # "Scalar"
    THEN Fold(TRUE, Ops[1].first, Ops[1].second)
    ELSE IF I.op = "gep"
    THEN IF Ops[1].first = "PB" THEN gepPointerBase(I, Ops)
         ELSE IF Ops[1].first = "VarArg" THEN gepVarArg(I, Ops, t0)
         ELSE Fold(TRUE, IF Ops[1].first = "Unknown" THEN "Unknown" ELSE "Overdef", InvalIV)
    ELSE orElse(specialFold(I, Ops, t0), genericFold(I, Ops))

(***************************************************************************)
(* The analysed program and its context tree.                              *)
(*                                                                         *)
(*   F(a):  entry:  x = add 2, 3      u = add a, 1                         *)
(*                  c = call G(x)     d = call H()                         *)
(*          join:   m = phi [x, left], [c, right]                          *)
(*                  t = phi [u, left], [d, right]                          *)
(*                  s = select u, x, 5                                     *)
(*          hdr:    p = phi [x, pre], [n, latch]                           *)
(*                  q = phi [7, pre], [5, latch]                           *)
(*          latch:  n = add p, 2                                           *)
(*          exit:   e = phi [n, latch]                                     *)
(*          allocs: k = alloca u      h = call noalias M(u)                *)
(*                  w = call noalias W()                                   *)
(*   G(b):  gentry: r = add b, 2      ret r                                *)
(*   W():   wentry: y = alloca        ret y                                *)
(*                                                                         *)
(* hdr and latch form the loop L.  The contexts are the root inline        *)
(* attempt of F, the inline attempts of the calls c and w, and NumIters    *)
(* peeled iterations of L; d and h have no inline attempt.                 *)
(***************************************************************************)
\* Number of iterations of the peel attempt of L.
NumIters == 2
\* Width of the program's integers.
IntBits == 4

Root == <<"root", 0>>
Inl == <<"inl", 0>>
InlW == <<"inl", 1>>
Iter(k) == <<"it", k>>
IterCtxs == {Iter(k) : k \in 0..(NumIters - 1)}
Ctxs == {Root, Inl, InlW} \cup IterCtxs

isIter(ctx) == ctx[1] = "it"
\* PeelIteration::iterationCount
iterationCount(ctx) == ctx[2]
\* IntegrationAttempt::parent
parentOf(ctx) == IF ctx = Root THEN <<"none", 0>> ELSE Root
\* IntegrationAttempt::L: the loop a context is an iteration of
loopOf(ctx) == IF isIter(ctx) THEN "L" ELSE "none"
\* PeelAttempt::Iterations of the peel attempt a context holds for loop l;
\* there is none where the solver is started on the loop as it stands.
Iterations(ctx, l) ==
    IF ctx = Root /\ l = "L" /\ region # "unpeeled"
    THEN [k \in 1..NumIters |-> Iter(k - 1)]
    ELSE <<>>
\* PeelAttempt::isEnabled() && isTerminated(): the peel attempt of L has
\* terminated, and is used while it is enabled.
peelUsable(ctx, l) == ctx = Root /\ l = "L" /\ enabled.pa

\* operands
ConstOp(n) == <<"c", n, "">>
InstOp(name) == <<"i", 0, name>>
ArgOp(name) == <<"a", 0, name>>
BlockOp(name) == <<"b", 0, name>>

ArgNames == {"a", "b"}
\* the values that live in a context
ValuesOf(ctx) ==
    IF ctx = Root
    THEN {"a", "x", "u", "c", "d", "m", "t", "s", "e", "k", "h", "w", "p", "q", "n"}
    ELSE IF ctx = Inl THEN {"b", "r"}
    ELSE IF ctx = InlW THEN {"y"}
    ELSE {"p", "q", "n"}

Arith(o, a, b, blk) ==
    [op |-> o, ops |-> <<a, b>>, bb |-> blk, width |-> IntBits, intTy |-> TRUE]

Inst(name) ==
    CASE name = "x" -> Arith("add", ConstOp(2), ConstOp(3), "entry")
      [] name = "u" -> Arith("add", ArgOp("a"), ConstOp(1), "entry")
      [] name = "c" -> [op |-> "call", ops |-> <<InstOp("x")>>, bb |-> "entry",
                        isVoid |-> FALSE, noAlias |-> FALSE]
      [] name = "d" -> [op |-> "call", ops |-> <<>>, bb |-> "entry",
                        isVoid |-> FALSE, noAlias |-> FALSE]
      [] name = "m" -> [op |-> "phi", ops |-> <<InstOp("x"), BlockOp("left"), InstOp("c"), BlockOp("right")>>,
                        bb |-> "join"]
      [] name = "t" -> [op |-> "phi", ops |-> <<InstOp("u"), BlockOp("left"), InstOp("d"), BlockOp("right")>>,
                        bb |-> "join"]
      [] name = "s" -> [op |-> "select", ops |-> <<InstOp("u"), InstOp("x"), ConstOp(5)>>, bb |-> "join"]
      [] name = "p" -> [op |-> "phi", ops |-> <<InstOp("x"), BlockOp("pre"), InstOp("n"), BlockOp("latch")>>,
                        bb |-> "hdr"]
      [] name = "q" -> [op |-> "phi", ops |-> <<ConstOp(7), BlockOp("pre"), ConstOp(5), BlockOp("latch")>>,
                        bb |-> "hdr"]
      [] name = "n" -> Arith("add", InstOp("p"), ConstOp(2), "latch")
      [] name = "e" -> [op |-> "phi", ops |-> <<InstOp("n"), BlockOp("latch")>>, bb |-> "exit"]
      [] name = "r" -> Arith("add", ArgOp("b"), ConstOp(2), "gentry")
      [] name = "k" -> [op |-> "alloca", ops |-> <<InstOp("u")>>, bb |-> "allocs",
                        self |-> AllocaV(11)]
      [] name = "h" -> [op |-> "call", ops |-> <<InstOp("u")>>, bb |-> "allocs",
                        isVoid |-> FALSE, noAlias |-> TRUE, self |-> AllocaV(12)]
      [] name = "w" -> [op |-> "call", ops |-> <<>>, bb |-> "allocs",
                        isVoid |-> FALSE, noAlias |-> TRUE, self |-> AllocaV(13)]
      [] name = "y" -> [op |-> "alloca", ops |-> <<>>, bb |-> "wentry", self |-> AllocaV(14)]

\* ShadowBBInvar::naturalScope
naturalScope(blk) == IF blk \in {"hdr", "latch"} THEN "L" ELSE "none"
\* Loop::contains(loop): L contains itself only
loopContains(l, inner) == l = inner /\ l # "none"
getLoopHeader(l) == "hdr"
getLoopPreheader(l) == "pre"
getLoopLatch(l) == "latch"
\* the block of the value a name stands for
definingBlock(name) == IF name \in ArgNames THEN "entry" ELSE Inst(name).bb

\* inlineChildren: the inline attempt of a call, if there is one
getInlineAttempt(ctx, name) ==
    IF ctx = Root /\ name = "c" THEN Inl
    ELSE IF ctx = Root /\ name = "w" THEN InlW
    ELSE <<"none", 0>>
\* InlineAttempt::CI, the call a context inlines, and its argument operands
callArgOperand(ctx, argName) == InstOp("x")
\* InlineAttempt::getLiveReturnVals: the operands of the live returns
getLiveReturnVals(ctx) == <<<<"v", ctx, IF ctx = InlW THEN "y" ELSE "r">>>>

\* The dead edges of a peel attempt that terminated without an early exit:
\* every iteration but the last leaves by the latch's back edge, the last one
\* by its exit edge.
TerminatedEdges ==
    {<<Iter(k), "latch", "exit">> : k \in 0..(NumIters - 2)}
        \cup {<<Iter(NumIters - 1), "latch", "hdr">>}
\* edgeIsDead
edgeIsDead(ctx, from, to) == <<ctx, from, to>> \in deadEdges

\* A resolved operand is <<"c", n>> for a literal or <<"v", ctx, name>> for the
\* shadow instruction or argument called name in context ctx.
\* ShadowInstruction::getOperand: an operand defined outside the loop of an
\* iteration is the parent context's value.
getOperand(ctx, operand) ==
    IF operand[1] = "c" THEN <<"c", operand[2]>>
    ELSE IF operand[3] \in ValuesOf(ctx) THEN <<"v", ctx, operand[3]>>
    ELSE <<"v", parentOf(ctx), operand[3]>>

\* getValPB of a literal
getValPB(n) == [first |-> "Scalar", second |-> ImprovedVal(CI(n), 0)]

\* getPointerBase(V, OutPB): OutPB; the call returns isInitialised(OutPB).
\* An instruction that no context evaluation reaches keeps the value it was
\* constructed with.
getPointerBase(sv) ==
    IF sv[1] = "c" THEN ScalarPB(sv[2])
    ELSE IF sv[3] \in ValuesOf(sv[2]) THEN PB[sv[2]][sv[3]]
    ELSE Unknown

\* getConstReplacement: the constant a value is known to be, or -1
getConstReplacement(sv) ==
    LET pb == getPointerBase(sv)
    IN  IF pb.Type = "Scalar" /\ Cardinality(pb.Values) = 1
        THEN (CHOOSE iv \in pb.Values : TRUE).V[2]
        ELSE -1

(***************************************************************************)
(* The evaluators in a context.                                            *)
(***************************************************************************)
\* The elements of a set in some order.
RECURSIVE SetToSeq(_)
SetToSeq(S) ==
    IF S = {} THEN <<>>
    ELSE LET x == CHOOSE y \in S : TRUE IN <<x>> \o SetToSeq(S \ {x})

\* tryEvaluateOrdinaryInst(SI, NewPB, Ops, OpIdx): NewPB afterwards.
\* forEachValue is its loop over the values of an operand's set.
\* What tryEvaluateOrdinaryInst does with the (ThisVST, ThisV) pair r that
\* tryEvaluateResult gave for one combination of operand values.
mergeResult(NewPB, r) ==
    IF r.ImpType = "Unknown" THEN NewPB
    ELSE IF r.ImpType = "Overdef" THEN OverdefPB
    ELSE merge(NewPB, MkPB(r.ImpType, r.Improved))

RECURSIVE tryEvaluateOrdinaryInstFrom(_, _, _, _, _)
RECURSIVE forEachValue(_, _, _, _, _, _, _)
tryEvaluateOrdinaryInstFrom(ctx, SI, NewPB, Ops, OpIdx) ==
    IF OpIdx = Len(SI.ops) + 1
    THEN mergeResult(NewPB, tryEvaluateResult(SI, Ops, "Unknown"))
    ELSE LET OpV == getOperand(ctx, SI.ops[OpIdx])
         IN  IF OpV[1] = "c"
             THEN tryEvaluateOrdinaryInstFrom(ctx, SI, NewPB,
                                              Append(Ops, getValPB(OpV[2])), OpIdx + 1)
             ELSE LET ArgPB == getPointerBase(OpV)
                  IN  IF ~isInitialised(ArgPB) \/ ArgPB.Overdef
                      THEN tryEvaluateOrdinaryInstFrom(ctx, SI, NewPB,
                               Append(Ops, [first |-> IF ArgPB.Overdef THEN "Overdef"
                                                                       ELSE "Unknown",
                                            second |-> InvalIV]),
                               OpIdx + 1)
                      ELSE forEachValue(ctx, SI, NewPB, Ops, OpIdx, ArgPB.Type,
                                        SetToSeq(ArgPB.Values))
forEachValue(ctx, SI, NewPB, Ops, OpIdx, T, Vals) ==
    IF Vals = <<>> \/ NewPB.Overdef THEN NewPB
    ELSE forEachValue(ctx, SI,
                      tryEvaluateOrdinaryInstFrom(ctx, SI, NewPB,
                          Append(Ops, [first |-> T, second |-> Head(Vals)]), OpIdx + 1),
                      Ops, OpIdx, T, Tail(Vals))

\* tryEvaluateOrdinaryInst(SI, NewPB)
tryEvaluateOrdinaryInst(ctx, SI) == tryEvaluateOrdinaryInstFrom(ctx, SI, Unknown, <<>>, 1)

\* getOperandRising: the operands an exit phi takes from an exiting block,
\* one per iteration whose exiting edge is live.
RECURSIVE getOperandRising(_, _, _, _, _)
RECURSIVE risingThrough(_, _, _, _, _)
getOperandRising(ctx, SI, valOpIdx, ExitingBB, ExitedBB) ==
    IF edgeIsDead(ctx, ExitingBB, ExitedBB) THEN <<>>
    ELSE IF /\ naturalScope(ExitingBB) # loopOf(ctx)
            /\ Iterations(ctx, naturalScope(ExitingBB)) # <<>>
            /\ peelUsable(ctx, naturalScope(ExitingBB))
    THEN risingThrough(Iterations(ctx, naturalScope(ExitingBB)), SI, valOpIdx,
                       ExitingBB, ExitedBB)
    ELSE IF SI.ops[valOpIdx][1] = "i"
         THEN <<<<"v", ctx, SI.ops[valOpIdx][3]>>>>
         ELSE <<getOperand(ctx, SI.ops[valOpIdx])>>
risingThrough(Iters, SI, valOpIdx, ExitingBB, ExitedBB) ==
    IF Iters = <<>> THEN <<>>
    ELSE getOperandRising(Head(Iters), SI, valOpIdx, ExitingBB, ExitedBB)
         \o risingThrough(Tail(Iters), SI, valOpIdx, ExitingBB, ExitedBB)

\* A faulty variant of getExitPHIOperands: the operand of a local predecessor
\* is taken whether or not its edge is dead.
getExitPHIOperandsAllEdges(ctx, SI, valOpIdx) ==
    LET OpBB == SI.ops[valOpIdx + 1][3]
        L == loopOf(ctx)
    IN  IF /\ naturalScope(OpBB) # L
           /\ (L = "none" \/ loopContains(L, naturalScope(OpBB)))
        THEN getOperandRising(ctx, SI, valOpIdx, OpBB, SI.bb)
        ELSE <<getOperand(ctx, SI.ops[valOpIdx])>>

\* getExitPHIOperands
getExitPHIOperands(ctx, SI, valOpIdx) ==
    LET OpBB == SI.ops[valOpIdx + 1][3]
        L == loopOf(ctx)
    IN  IF /\ naturalScope(OpBB) # L
           /\ (L = "none" \/ loopContains(L, naturalScope(OpBB)))
        THEN getOperandRising(ctx, SI, valOpIdx, OpBB, SI.bb)
        ELSE IF ~edgeIsDead(ctx, OpBB, SI.bb)
             THEN <<getOperand(ctx, SI.ops[valOpIdx])>>
             ELSE <<>>

\* The operands of a phi that is not a header phi, predecessor by predecessor.
RECURSIVE phiVals(_, _, _)
phiVals(ctx, SI, i) ==
    IF i > Len(SI.ops) THEN <<>>
    ELSE getExitPHIOperands(ctx, SI, i) \o phiVals(ctx, SI, i + 2)

\* A faulty variant of mergeLoop: an operand without a value gives Overdef in
\* either phase.
RECURSIVE mergeLoopStrict(_, _, _, _)
mergeLoopStrict(VPBs, finalise, NewPB, anyInfo) ==
    IF VPBs = <<>> \/ NewPB.Overdef THEN [NewPB |-> NewPB, ret |-> anyInfo]
    ELSE LET VPB == Head(VPBs)
         IN  IF ~isInitialised(VPB) THEN [NewPB |-> OverdefPB, ret |-> TRUE]
             ELSE mergeLoopStrict(Tail(VPBs), finalise, merge(NewPB, VPB), TRUE)

\* A faulty variant of mergeLoop: each value replaces the one before it.
RECURSIVE mergeLoopOverwrites(_, _, _, _)
mergeLoopOverwrites(VPBs, finalise, NewPB, anyInfo) ==
    IF VPBs = <<>> \/ NewPB.Overdef THEN [NewPB |-> NewPB, ret |-> anyInfo]
    ELSE LET VPB == Head(VPBs)
         IN  IF ~isInitialised(VPB)
             THEN IF finalise THEN [NewPB |-> OverdefPB, ret |-> TRUE]
                  ELSE mergeLoopOverwrites(Tail(VPBs), finalise, NewPB, anyInfo)
             ELSE mergeLoopOverwrites(Tail(VPBs), finalise, VPB, TRUE)

\* A faulty variant of mergeLoop: an operand without a value is skipped in
\* the finalising phase too.
RECURSIVE mergeLoopLenient(_, _, _, _)
mergeLoopLenient(VPBs, finalise, NewPB, anyInfo) ==
    IF VPBs = <<>> \/ NewPB.Overdef THEN [NewPB |-> NewPB, ret |-> anyInfo]
    ELSE LET VPB == Head(VPBs)
         IN  IF ~isInitialised(VPB)
             THEN mergeLoopLenient(Tail(VPBs), finalise, NewPB, anyInfo)
             ELSE mergeLoopLenient(Tail(VPBs), finalise, merge(NewPB, VPB), TRUE)

\* The loop of tryEvaluateMerge over the values to merge; VPBs holds what
\* getPointerBase gives for each of them (uninitialised when it returns false).
RECURSIVE mergeLoop(_, _, _, _)
mergeLoop(VPBs, finalise, NewPB, anyInfo) ==
    IF VPBs = <<>> \/ NewPB.Overdef THEN [NewPB |-> NewPB, ret |-> anyInfo]
    ELSE LET VPB == Head(VPBs)
         IN  IF ~isInitialised(VPB)
             THEN IF finalise THEN [NewPB |-> OverdefPB, ret |-> TRUE]
                  ELSE mergeLoop(Tail(VPBs), finalise, NewPB, anyInfo)
             ELSE mergeLoop(Tail(VPBs), finalise, merge(NewPB, VPB), TRUE)

\* getPointerBase of each value to merge
resolveAll(Vals) == [i \in 1..Len(Vals) |-> getPointerBase(Vals[i])]

\* tryEvaluateMerge, the values to merge: the two value operands of a select,
\* the live return values of an inlined call, the operands of a phi.
mergeVals(ctx, name) ==
    LET SI == Inst(name)
    IN  IF SI.op = "select"
        THEN <<getOperand(ctx, SI.ops[2]), getOperand(ctx, SI.ops[3])>>
        ELSE IF SI.op = "call" THEN getLiveReturnVals(getInlineAttempt(ctx, name))
        ELSE phiVals(ctx, SI, 1)

\* tryEvaluateMerge(I, finalise, NewPB): NewPB afterwards and the value returned.
tryEvaluateMerge(ctx, name, finalise) ==
    IF /\ Inst(name).op = "call"
       /\ (Inst(name).isVoid \/ getInlineAttempt(ctx, name)[1] = "none")
    THEN [NewPB |-> Unknown, ret |-> FALSE]
    ELSE mergeLoop(resolveAll(mergeVals(ctx, name)), finalise, Unknown, FALSE)

\* PeelIteration::getLoopHeaderForwardedOperand
getLoopHeaderForwardedOperand(ctx, SI) ==
    LET predIdx(blk) == CHOOSE i \in 1..Len(SI.ops) : SI.ops[i] = BlockOp(blk)
    IN  IF iterationCount(ctx) = 0
        THEN getOperand(ctx, SI.ops[predIdx(getLoopPreheader(loopOf(ctx))) - 1])
        ELSE LET op == SI.ops[predIdx(getLoopLatch(loopOf(ctx))) - 1]
             IN  IF op[1] = "i" THEN <<"v", Iter(iterationCount(ctx) - 1), op[3]>>
                 ELSE getOperand(ctx, op)

\* A faulty variant of tryEvaluateHeaderPHI: a header phi is left to the merge.
tryEvaluateHeaderPHINever(ctx, name) ==
    [handled |-> FALSE, resultValid |-> FALSE, result |-> Unknown]

\* tryEvaluateHeaderPHI (IntegrationAttempt's returns false, PeelIteration's
\* handles the phis of its loop's header).
tryEvaluateHeaderPHI(ctx, name) ==
    IF isIter(ctx) /\ Inst(name).bb = getLoopHeader(loopOf(ctx))
    THEN LET result == getPointerBase(getLoopHeaderForwardedOperand(ctx, Inst(name)))
         IN  [handled |-> TRUE, resultValid |-> isInitialised(result), result |-> result]
    ELSE [handled |-> FALSE, resultValid |-> FALSE, result |-> Unknown]

\* What getNewPB and getArgBasePointer hand back: the value returned and NewPB.
Got(valid, pb) == [valid |-> valid, NewPB |-> pb]

\* getNewPB, after tryEvaluateOrdinaryInst: the finalising phase turns "no
\* information" into Overdef.
setOverdefIfFinal(finalise, NewPB) ==
    IF finalise /\ ~isInitialised(NewPB) THEN OverdefPB ELSE NewPB

\* return NewPB.isInitialised()
GotPB(NewPB) == Got(isInitialised(NewPB), NewPB)

\* getNewPB on a phi: a header phi is resolved by tryEvaluateHeaderPHI, any
\* other phi is merged.
phiResult(hdr, merged) ==
    IF hdr.handled THEN Got(hdr.resultValid, hdr.result) ELSE GotPB(merged.NewPB)

\* A faulty variant of getNewPB: in the finalising phase "no information"
\* becomes Overdef after a merge as well.
getNewPBForceAll(ctx, name, finalise) ==
    GotPB(setOverdefIfFinal(finalise,
             IF Inst(name).op \in {"phi", "select", "call"}
             THEN tryEvaluateMerge(ctx, name, finalise).NewPB
             ELSE tryEvaluateOrdinaryInst(ctx, Inst(name))))

\* A faulty variant of getNewPB: a select is evaluated like an ordinary
\* instruction, from its condition.
getNewPBSelectOrdinary(ctx, name, finalise) ==
    IF Inst(name).op = "phi"
    THEN phiResult(tryEvaluateHeaderPHI(ctx, name), tryEvaluateMerge(ctx, name, finalise))
    ELSE IF Inst(name).op = "call"
    THEN GotPB(tryEvaluateMerge(ctx, name, finalise).NewPB)
    ELSE GotPB(setOverdefIfFinal(finalise, tryEvaluateOrdinaryInst(ctx, Inst(name))))

\* A faulty variant of getNewPB: a call returning a fresh object is never
\* merged.
getNewPBNoAliasFirst(ctx, name, finalise) ==
    IF Inst(name).op = "call" /\ Inst(name).noAlias
    THEN GotPB(setOverdefIfFinal(finalise, tryEvaluateOrdinaryInst(ctx, Inst(name))))
    ELSE getNewPBSelectOrdinary(ctx, name, finalise)

\* getNewPB
getNewPB(ctx, name, finalise) ==
    LET SI == Inst(name)
        Cond == getConstReplacement(getOperand(ctx, SI.ops[1]))
        tryMerge == \/ SI.op = "select"
                    \/ SI.op = "call" /\ (getInlineAttempt(ctx, name)[1] # "none"
                                           \/ ~SI.noAlias)
    IN  IF SI.op = "phi"
        THEN phiResult(tryEvaluateHeaderPHI(ctx, name), tryEvaluateMerge(ctx, name, finalise))
        ELSE IF SI.op = "select" /\ Cond # -1
        THEN GotPB(getPointerBase(getOperand(ctx, SI.ops[IF Cond = 0 THEN 3 ELSE 2])))
        ELSE IF SI.op \in {"br", "switch"} THEN Got(FALSE, Unknown)
        ELSE IF tryMerge THEN GotPB(tryEvaluateMerge(ctx, name, finalise).NewPB)
        ELSE GotPB(setOverdefIfFinal(finalise, tryEvaluateOrdinaryInst(ctx, SI)))

\* InlineAttempt::getArgBasePointer, reached through getFunctionRoot()
getArgBasePointer(ctx, name) ==
    IF parentOf(ctx)[1] = "none" THEN Got(FALSE, Unknown)
    ELSE LET pb == getPointerBase(getOperand(parentOf(ctx), callArgOperand(ctx, name)))
         IN  Got(isInitialised(pb), pb)

(***************************************************************************)
(* tryEvaluate and the state machine of its calls.                         *)
(***************************************************************************)
\* What a call of tryEvaluate does: the value it returns, the cached value
\* afterwards, and whether it got as far as computing a new value.
Did(ret, pb, computed) == [ret |-> ret, PB |-> pb, computed |-> computed]

\* A faulty variant of storeNewPB: a new value that carries no information
\* is stored as well.
storeNewPBInvalid(OldPB, New) ==
    IF OldPB # New.NewPB THEN Did(TRUE, New.NewPB, TRUE) ELSE Did(FALSE, OldPB, TRUE)

\* tryEvaluate from "if(!NewPBValid)" on: New is what getNewPB or
\* getArgBasePointer gave.
storeNewPB(OldPB, New) ==
    IF ~New.valid THEN Did(FALSE, OldPB, TRUE)
    ELSE IF ~isInitialised(OldPB) \/ OldPB # New.NewPB THEN Did(TRUE, New.NewPB, TRUE)
    ELSE Did(FALSE, OldPB, TRUE)

\* A faulty variant of analyserSkips: a cached Overdef is recomputed like any
\* other value.
analyserSkipsUnknownOnly(OldPB, finalise, lpba) ==
    lpba /\ finalise /\ ~isInitialised(OldPB)

\* tryEvaluate, "if(LPBA)": with a loop analyser a cached Overdef is never
\* evaluated again, nor is a value without information in the finalising phase.
analyserSkips(OldPB, finalise, lpba) ==
    lpba /\ (OldPB.Overdef \/ (finalise /\ ~isInitialised(OldPB)))

\* tryEvaluate(V, finalise, LPBA, ...) on the value called name in context ctx.
tryEvaluate(ctx, name, finalise, lpba) ==
    IF analyserSkips(PB[ctx][name], finalise, lpba) THEN Did(FALSE, PB[ctx][name], FALSE)
    ELSE storeNewPB(PB[ctx][name],
                    IF name \in ArgNames THEN getArgBasePointer(ctx, name)
                    ELSE getNewPB(ctx, name, finalise))

\* One call of tryEvaluate: the cache afterwards.
TryEvaluate(ctx, name, finalise, lpba) ==
    PB' = [PB EXCEPT ![ctx][name] = tryEvaluate(ctx, name, finalise, lpba).PB]

\* The solver is started on one part of the program: the straight-line code
\* of F with the inlined call, or the loop L with its exit; the allocations
\* of F with its calls are a part of their own, and so is the loop L where
\* it has not been peeled and its body is the root's own.  WorkOrder is the part's
\* values in program order.
Regions == {"calls", "loop"}
RECURSIVE iterationWork(_)
iterationWork(k) ==
    IF k = NumIters THEN <<>>
    ELSE <<<<Iter(k), "p">>, <<Iter(k), "q">>, <<Iter(k), "n">>>> \o iterationWork(k + 1)
WorkOrder(r) ==
    IF r = "calls"
    THEN <<<<Root, "a">>, <<Root, "x">>, <<Root, "u">>, <<Inl, "b">>, <<Inl, "r">>,
           <<Root, "c">>, <<Root, "d">>, <<Root, "m">>, <<Root, "t">>, <<Root, "s">>>>
    ELSE IF r = "unpeeled"
    THEN <<<<Root, "x">>, <<Root, "p">>, <<Root, "q">>, <<Root, "n">>, <<Root, "e">>>>
    ELSE IF r = "allocs"
    THEN <<<<Root, "a">>, <<Root, "x">>, <<Root, "u">>, <<Inl, "b">>, <<Inl, "r">>,
           <<Root, "c">>, <<Root, "k">>, <<Root, "h">>, <<InlW, "y">>, <<Root, "w">>>>
    ELSE <<<<Root, "x">>>> \o iterationWork(0) \o <<<<Root, "e">>>>
Work(r) == {WorkOrder(r)[i] : i \in 1..Len(WorkOrder(r))}

(***************************************************************************)
(* The flags of the context tree.  A context has inline children, one per  *)
(* inlined call, and peel children, each with one context per iteration;   *)
(* the tree below has the root, its children and their children.  A        *)
(* context is written as the path that leads to it from the root.          *)
(***************************************************************************)
\* inlineChildren and the Iterations of peelChildren of a context
\* (the root and its children each inline one call; the root has a loop, and
\* that loop has a loop nested in its body).
inlineChildren(c) == IF Len(c) < 2 THEN {Append(c, <<"call", 0>>)} ELSE {}
peelIterations(c) ==
    IF c = <<>> \/ (Len(c) = 1 /\ c[1][1] = "it")
    THEN {Append(c, <<"it", k>>) : k \in 0..(NumIters - 1)}
    ELSE {}
TreeCtxs ==
    LET kids(c) == inlineChildren(c) \cup peelIterations(c)
    IN  {<<>>} \cup kids(<<>>) \cup UNION {kids(c) : c \in kids(<<>>)}

\* A faulty variant of markContextDead: the children are marked, but not
\* their own children.
markContextDeadShallow(d, c) ==
    [n \in TreeCtxs |->
        d[n] \/ n = c \/ n \in inlineChildren(c) \/ n \in peelIterations(c)]

\* markContextDead on context c: the dead flags d afterwards.
RECURSIVE markContextDead(_, _)
RECURSIVE markEach(_, _)
markContextDead(d, c) ==
    markEach(markEach([d EXCEPT ![c] = TRUE], SetToSeq(inlineChildren(c))),
             SetToSeq(peelIterations(c)))
markEach(d, cs) ==
    IF cs = <<>> THEN d ELSE markEach(markContextDead(d, Head(cs)), Tail(cs))

NoneDead == [c \in TreeCtxs |-> FALSE]
AllEnabled == [pa |-> TRUE, ia |-> TRUE]

InitPB == [ctx \in Ctxs |-> [name \in ValuesOf(ctx) |-> Unknown]]

Init ==
    /\ PB = InitPB
    /\ region \in Regions
    /\ analyser = FALSE
    /\ phase = "free"
    /\ cursor = 0
    /\ fin = [op |-> "none"]
    /\ fout = [op |-> "none"]
    /\ walk = NoWalk
    /\ dead = NoneDead
    /\ enabled = AllEnabled
    /\ deadEdges = TerminatedEdges

\* Any value of the region is evaluated, in either phase, with or without a
\* loop analyser.
Evaluate ==
    /\ \E w \in Work(region) : \E finalise, lpba \in BOOLEAN :
          TryEvaluate(w[1], w[2], finalise, lpba)
    /\ UNCHANGED <<region, analyser, phase, cursor, fin, fout, walk, dead, enabled, deadEdges>>

Next == Evaluate

Spec == Init /\ [][Next]_vars

(***************************************************************************)
(* Properties of tryEvaluate under any sequence of calls (Spec).           *)
(***************************************************************************)
\* C2: across any sequence of tryEvaluate calls (optimistic ones, and
\* finalising ones as well), a cached value of an instruction or argument
\* that is a concrete category or Overdef is never Unknown again: a
\* re-evaluation that yields no information leaves the cached value in place.
C2_NeverBackToUnknown ==
    [][\A ctx \in Ctxs : \A name \in ValuesOf(ctx) :
          isInitialised(PB[ctx][name]) => isInitialised(PB'[ctx][name])]_vars

\* C2 witness: u = add a, 1 holds Overdef from a finalising call, and an
\* optimistic re-evaluation computes no information and keeps it.
C2_Witness ==
    /\ PB[Root]["u"] = OverdefPB
    /\ ~getNewPB(Root, "u", FALSE).valid
    /\ tryEvaluate(Root, "u", FALSE, FALSE) = Did(FALSE, OverdefPB, TRUE)

C5_Forwarded(k, name) ==
    IF name = "p"
    THEN IF k = 0 THEN PB[Root]["x"] ELSE PB[Iter(k - 1)]["n"]
    ELSE IF k = 0 THEN ScalarPB(7) ELSE ScalarPB(5)

\* C5: in every iteration k a tryEvaluate call gives a header phi the value
\* of exactly one predecessor's operand, never a merge: the preheader
\* operand's value for k = 0, the latch operand's value in iteration k - 1
\* for k > 0; and when that operand has no value the phi keeps what it had.
C5_HeaderPhiOnePredecessor ==
    [][\A k \in 0..(NumIters - 1) : \A name \in {"p", "q"} :
          /\ PB'[Iter(k)][name] # PB[Iter(k)][name] =>
                PB'[Iter(k)][name] = C5_Forwarded(k, name)
          /\ \A finalise \in BOOLEAN :
                getNewPB(Iter(k), name, finalise) =
                   Got(isInitialised(C5_Forwarded(k, name)), C5_Forwarded(k, name))]_vars

\* C5 witness: p is 5 in iteration 0 (from x), n = p + 2 is 7 there, and p
\* is 7 in iteration 1; q is 7 in iteration 0 and 5 in iteration 1.
C5_Witness ==
    /\ PB[Iter(0)]["p"] = ScalarPB(5)
    /\ PB[Iter(0)]["n"] = ScalarPB(7)
    /\ PB[Iter(1)]["p"] = ScalarPB(7)
    /\ PB[Iter(0)]["q"] = ScalarPB(7)
    /\ PB[Iter(1)]["q"] = ScalarPB(5)

\* The select s = select u, x, 5 has both value operands resolved to the
\* Scalar 5 while its condition u is not a known constant.
C7_SameScalars ==
    /\ PB[Root]["x"] = ScalarPB(5)
    /\ getConstReplacement(<<"v", Root, "u">>) = -1

\* C7: a select whose two value operands are the same Scalar is computed to
\* that Scalar while its condition is unresolved, in the optimistic and in the
\* finalising phase, and every tryEvaluate call that computes it caches it.
C7_SelectSameScalar ==
    C7_SameScalars =>
       \A finalise \in BOOLEAN :
          /\ getNewPB(Root, "s", finalise) = Got(TRUE, ScalarPB(5))
          /\ \A lpba \in BOOLEAN :
                tryEvaluate(Root, "s", finalise, lpba).computed =>
                   tryEvaluate(Root, "s", finalise, lpba).PB = ScalarPB(5)

\* C7 witness: s was evaluated to Scalar 5 while u had no value at all.
C7_Witness ==
    /\ C7_SameScalars
    /\ ~isInitialised(PB[Root]["u"])
    /\ PB[Root]["s"] = ScalarPB(5)

(***************************************************************************)
(* The two-phase solver: the optimistic phase re-evaluates the values of   *)
(* the region until nothing changes, then the finalising phase evaluates   *)
(* every value once, in program order.  A run has a loop analyser attached *)
(* to all of its calls or to none.                                         *)
(***************************************************************************)
InitDriver ==
    /\ PB = InitPB
    /\ region \in Regions
    /\ analyser \in BOOLEAN
    /\ phase = "optimistic"
    /\ cursor = 0
    /\ fin = [op |-> "none"]
    /\ fout = [op |-> "none"]
    /\ walk = NoWalk
    /\ dead = NoneDead
    /\ enabled = AllEnabled
    /\ deadEdges = TerminatedEdges

\* No optimistic evaluation changes a value any more.
converged ==
    \A w \in Work(region) : ~tryEvaluate(w[1], w[2], FALSE, analyser).ret

Optimistic ==
    /\ phase = "optimistic"
    /\ \E w \in Work(region) :
          /\ TryEvaluate(w[1], w[2], FALSE, analyser)
          /\ PB' # PB
    /\ UNCHANGED <<region, analyser, phase, cursor, fin, fout, walk, dead, enabled, deadEdges>>

StartFinalise ==
    /\ phase = "optimistic"
    /\ converged
    /\ phase' = "finalising"
    /\ cursor' = 1
    /\ UNCHANGED <<PB, region, analyser, fin, fout, walk, dead, enabled, deadEdges>>

Finalise ==
    /\ phase = "finalising"
    /\ cursor <= Len(WorkOrder(region))
    /\ TryEvaluate(WorkOrder(region)[cursor][1], WorkOrder(region)[cursor][2], TRUE, analyser)
    /\ cursor' = cursor + 1
    /\ phase' = IF cursor = Len(WorkOrder(region)) THEN "done" ELSE "finalising"
    /\ UNCHANGED <<region, analyser, fin, fout, walk, dead, enabled, deadEdges>>

NextDriver == Optimistic \/ StartFinalise \/ Finalise

SpecDriver == InitDriver /\ [][NextDriver]_vars

C4_Forced(w) ==
    /\ w[2] \notin ArgNames
    /\ \/ Inst(w[2]).op \in {"add", "select"}
       \/ Inst(w[2]).op = "phi" /\ ~isIter(w[1])
       \/ Inst(w[2]).op = "call" /\ getInlineAttempt(w[1], w[2])[1] # "none"

C6_PhiStaysUnknown ==
    (/\ phase = "optimistic"
     /\ ~isInitialised(PB[Root]["x"]) \/ ~isInitialised(PB[Root]["c"]))
       => ~isInitialised(PB[Root]["m"])

\* What the optimistic merge of the operands x and c of m gives.
C6_Optimistic ==
    IF ~isInitialised(PB[Root]["c"]) THEN PB[Root]["x"]
    ELSE IF ~isInitialised(PB[Root]["x"]) THEN PB[Root]["c"]
    ELSE OverdefPB

\* C6, amended: in the optimistic phase the phi m = phi(x, c), of the values
\* 5 and 7, with one operand still Unknown is evaluated to the value of the
\* other operand (Unknown only while both are Unknown), and to Overdef once
\* both are known; a finalising evaluation with an operand Unknown gives
\* Overdef; after finalisation m is Overdef.
C6_PhiSkipsUnknown ==
    region = "calls" =>
       /\ PB[Root]["x"] \in {Unknown, ScalarPB(5)}
       /\ PB[Root]["c"] \in {Unknown, ScalarPB(7)}
       /\ phase = "optimistic" =>
             /\ getNewPB(Root, "m", FALSE).NewPB = C6_Optimistic
             /\ PB[Root]["m"] \in {Unknown, ScalarPB(5), ScalarPB(7), OverdefPB}
       /\ (~isInitialised(PB[Root]["x"]) \/ ~isInitialised(PB[Root]["c"])) =>
             getNewPB(Root, "m", TRUE) = Got(TRUE, OverdefPB)
       /\ phase = "done" => PB[Root]["m"] = OverdefPB

\* C6 witness: mid-way through the optimistic phase x is 5, the call c is
\* still Unknown, and m was evaluated to Scalar 5.
C6_Witness ==
    /\ phase = "optimistic"
    /\ PB[Root]["x"] = ScalarPB(5)
    /\ ~isInitialised(PB[Root]["c"])
    /\ PB[Root]["m"] = ScalarPB(5)

(***************************************************************************)
(* The evaluators applied on their own: every action draws the operands of *)
(* one evaluator, applies it and keeps what it was given and what it gave. *)
(***************************************************************************)
\* The candidate (base, offset) pairs Pointer-Base sets are drawn from.
CandSeq ==
    <<ImprovedVal(AllocaV(1), 0), ImprovedVal(AllocaV(1), 4), ImprovedVal(GlobalV(1), 0),
      ImprovedVal(GlobalV(1), LLONG_MAX), ImprovedVal(AllocaV(2), 0),
      ImprovedVal(GlobalV(2), 8)>>
CandPairs == {CandSeq[i] : i \in 1..NumCands}
PointerBases ==
    {[Type |-> "PB", Values |-> vs, Overdef |-> FALSE] :
        vs \in {v \in SUBSET CandPairs : v # {} /\ Cardinality(v) <= PBMAX}}
LatticeVals ==
    {Unknown, OverdefPB, ScalarPB(0), ScalarPB(1)}
    \cup {MkPB("FD", ImprovedVal(<<"fd", k>>, 0)) : k \in 1..2}
    \cup {MkPB("VarArg", ImprovedVal(<<"vararg", 1>>, 0))}
    \cup PointerBases

\* The six orders of three values.
Orders3 == {<<1, 2, 3>>, <<1, 3, 2>>, <<2, 1, 3>>, <<2, 3, 1>>, <<3, 1, 2>>, <<3, 2, 1>>}

ApplyMerge ==
    /\ fin.op = "none"
    /\ \E x, y, z \in LatticeVals :
          /\ fin' = [op |-> "merge", x |-> x, y |-> y, z |-> z]
          /\ fout' = [op |-> "merge",
                      xy |-> merge(x, y), yx |-> merge(y, x), xx |-> merge(x, x),
                      xy_z |-> merge(merge(x, y), z), x_yz |-> merge(x, merge(y, z)),
                      loop |-> [f \in BOOLEAN |-> [o \in Orders3 |->
                                   mergeLoop(<<<<x, y, z>>[o[1]], <<x, y, z>>[o[2]],
                                               <<x, y, z>>[o[3]]>>, f, Unknown, FALSE)]]]
    /\ UNCHANGED <<PB, region, analyser, phase, cursor, walk, dead, enabled, deadEdges>>

\* An operand as an evaluator sees it: its category and its value.
Operand(t, v, off) == [first |-> t, second |-> ImprovedVal(v, off)]
UnknownOp == [first |-> "Unknown", second |-> InvalIV]
OverdefOp == [first |-> "Overdef", second |-> InvalIV]

\* GEPs: a base, a pointee type and one to three indices of MaxWidth bits.
GepBases ==
    {Operand("PB", AllocaV(1), off) : off \in {0, 4, LLONG_MAX}}
    \cup {UnknownOp, OverdefOp}
GepIndices == {Operand("Scalar", CI(n), 0) : n \in 0..(2^MaxWidth - 1)} \cup {UnknownOp}
GepIndexLists == UNION {[1..k -> GepIndices] : k \in 1..3}
\* The indices are well typed: a struct index is a constant naming a field,
\* and only an aggregate is indexed further.
RECURSIVE wellTyped(_, _, _)
wellTyped(idx, i, cur) ==
    IF i > Len(idx) THEN TRUE
    ELSE IF cur.struct
         THEN /\ idx[i].first = "Scalar"
              /\ idx[i].second.V[2] < StructNumElements(cur.ty)
              /\ wellTyped(idx, i + 1, gepTypeNext(cur, idx[i].second.V[2]))
    ELSE /\ i = 1 \/ isAggregateTy(cur.ty)
         /\ wellTyped(idx, i + 1, gepTypeNext(cur, 0))

ApplyGEP ==
    /\ fin.op = "none"
    /\ \E base \in GepBases, t \in {"i32", "S", "A", "AS"}, idx \in GepIndexLists :
          /\ wellTyped(idx, 1, gepTypeBegin(t))
          /\ LET SI == [op |-> "gep", srcTy |-> t, width |-> MaxWidth]
                 Ops == <<base>> \o idx
             IN  /\ fin' = [op |-> "gep", I |-> SI, Ops |-> Ops]
                 /\ fout' = tryEvaluateResult(SI, Ops, "Unknown")
    /\ UNCHANGED <<PB, region, analyser, phase, cursor, walk, dead, enabled, deadEdges>>

\* Pointer comparisons: two operands that are pointers, constants or unresolved.
CmpOperands ==
    {Operand("PB", v, off) :
        v \in {GlobalV(1), GlobalV(2), AllocaV(1), ArgV(1), NullV}, off \in {0, 4, LLONG_MAX}}
    \cup {Operand("Scalar", v, 0) : v \in {CI(0), CI(1), NullV, GlobalV(1), <<"fn", 1>>}}
    \cup {UnknownOp, OverdefOp}

ApplyPointerCmp ==
    /\ fin.op = "none"
    /\ \E a, b \in CmpOperands, pred \in IntPreds :
          LET SI == [op |-> "icmp", pred |-> pred, width |-> MaxWidth]
          IN  /\ fin' = [op |-> "ptrcmp", I |-> SI, Ops |-> <<a, b>>]
              /\ fout' = tryFoldPointerCmp(SI, <<a, b>>, "Unknown")
    /\ UNCHANGED <<PB, region, analyser, phase, cursor, walk, dead, enabled, deadEdges>>

\* Integer comparisons of 1..MaxWidth bits: each operand is a ConstantInt or
\* is not a constant (unresolved, or a pointer into an allocation).
NonConstOperands == {UnknownOp, OverdefOp, Operand("PB", AllocaV(1), 0)}

ApplyNonConstCmp ==
    /\ fin.op = "none"
    /\ \E w \in 1..MaxWidth, pred \in AllPreds :
       \E a, b \in {Operand("Scalar", CI(n), 0) : n \in 0..(2^w - 1)} \cup NonConstOperands :
          LET SI == [op |-> IF pred \in IntPreds THEN "icmp" ELSE "fcmp",
                     pred |-> pred, width |-> w]
          IN  /\ fin' = [op |-> "cmp", I |-> SI, Ops |-> <<a, b>>]
              /\ fout' = tryFoldNonConstCmp(SI, <<a, b>>, "Unknown")
    /\ UNCHANGED <<PB, region, analyser, phase, cursor, walk, dead, enabled, deadEdges>>

\* The categories a ValSetType variable can hold.
ValSetTypes == {"Unknown", "Scalar", "PB", "FD", "VarArg", "Overdef"}

\* Casts between i8, i32, i64 and pointers of one operand of any category.
CastInputs ==
    {[I |-> [op |-> "cast", srcTy |-> s, destTy |-> d], Ops |-> <<o>>] :
        s \in {"i8", "i32", "i64", "ptr"}, d \in {"i8", "i32", "i64", "ptr"},
        o \in {Operand("FD", <<"fd", 1>>, 0), Operand("PB", AllocaV(1), 4),
               Operand("PB", GlobalV(1), LLONG_MAX), Operand("VarArg", <<"vararg", 1>>, 0),
               Operand("Scalar", CI(5), 0), UnknownOp, OverdefOp}}

\* Comparisons of a file descriptor with a ConstantInt of 1..MaxWidth bits or
\* of WideBits bits, the descriptor on either side.
WideBits == 65
OpenCmpInputs ==
    UNION {{[I |-> [op |-> "icmp", pred |-> pred, width |-> w],
             Ops |-> IF fdFirst
                     THEN <<Operand("FD", <<"fd", 1>>, 0), Operand("Scalar", CI(n), 0)>>
                     ELSE <<Operand("Scalar", CI(n), 0), Operand("FD", <<"fd", 1>>, 0)>>] :
               pred \in IntPreds, fdFirst \in BOOLEAN,
               n \in 0..(2^(IF w > MaxWidth THEN MaxWidth ELSE w) - 1)} :
           w \in 1..MaxWidth \cup {WideBits}}

\* Binary operators on two operands of any category.
GenericInputs ==
    {[I |-> [op |-> o, width |-> MaxWidth, intTy |-> TRUE], Ops |-> <<a, b>>] :
        o \in {"mul", "and"},
        a, b \in {UnknownOp, OverdefOp, Operand("Scalar", CI(0), 0),
                  Operand("Scalar", CI(3), 0), Operand("PB", NullV, 0),
                  Operand("PB", AllocaV(1), 0), Operand("FD", <<"fd", 1>>, 0)}}

\* Additions and subtractions of MaxWidth bits on pointers into two
\* allocations, constants and operands without a value.
PtrAsIntInputs ==
    {[I |-> [op |-> o, width |-> MaxWidth, intTy |-> TRUE], Ops |-> <<a, b>>] :
        o \in {"add", "sub"},
        a, b \in {Operand("PB", AllocaV(1), off) : off \in {0, 4, LLONG_MAX}}
                  \cup {Operand("PB", AllocaV(2), 0), UnknownOp, OverdefOp}
                  \cup {Operand("Scalar", CI(n), 0) : n \in 0..(2^MaxWidth - 1)}}

\* GEPs on a VarArg value: off the base of the frame by a multiple of 8
\* bytes up to one slot past the frame, or off a spilled argument by 8 bytes
\* with or without a next spilled argument.
VarArgInputs ==
    {[I |-> [op |-> "gep", srcTy |-> "i8", width |-> 64, spilledAfter |-> -1],
      Ops |-> <<Operand("VarArg", <<"vararg", 1>>, -2), idx>>] :
        idx \in {Operand("Scalar", CI(8 * k), 0) : k \in 0..22} \cup {UnknownOp, OverdefOp}}
    \cup {[I |-> [op |-> "gep", srcTy |-> "i8", width |-> 64, spilledAfter |-> next],
           Ops |-> <<Operand("VarArg", <<"vararg", 1>>, arg), Operand("Scalar", CI(8), 0)>>] :
             arg \in {7, 64}, next \in {-1, 8, 65}}

ResultInputs ==
    CastInputs \cup OpenCmpInputs \cup GenericInputs \cup PtrAsIntInputs \cup VarArgInputs

\* tryEvaluateResult as tryEvaluateOrdinaryInst calls it: ThisVST is declared
\* without an initial value, ThisV is default-constructed.
ApplyResult ==
    /\ fin.op = "none"
    /\ \E in \in ResultInputs, ThisVST \in ValSetTypes :
          /\ fin' = [op |-> "result", I |-> in.I, Ops |-> in.Ops, ThisVST |-> ThisVST]
          /\ fout' = tryEvaluateResult(in.I, in.Ops, ThisVST)
    /\ UNCHANGED <<PB, region, analyser, phase, cursor, walk, dead, enabled, deadEdges>>

\* A peel attempt as isOnlyExitingIteration reads it: whether the loop has
\* an optimistic edge, and per iteration its status and whether all of its
\* exit edges are dead.  Every iteration that has a successor is non-final.
PeelAttempts ==
    {[optimisticEdge |-> e, Iterations |-> its] :
        e \in BOOLEAN,
        its \in {q \in UNION {[1..n -> [iterStatus : {"IterationStatusUnknown",
                                                      "IterationStatusNonFinal",
                                                      "IterationStatusFinal"},
                                        allExitEdgesDead : BOOLEAN]] :
                                  n \in 1..(NumIters + 1)} :
                    \A i \in 1..(Len(q) - 1) :
                       q[i].iterStatus = "IterationStatusNonFinal"}}

\* A faulty variant: the last iteration must not exit either.
allIterationsDoNotExit(PA) ==
    \A i \in 1..Len(PA.Iterations) : PA.Iterations[i].allExitEdgesDead

\* PeelAttempt::allNonFinalIterationsDoNotExit
allNonFinalIterationsDoNotExit(PA) ==
    \A i \in 1..(Len(PA.Iterations) - 1) : PA.Iterations[i].allExitEdgesDead

\* PeelIteration::isOnlyExitingIteration, of iteration k of peel attempt PA
isOnlyExitingIteration(PA, k) ==
    IF PA.Iterations[k].iterStatus # "IterationStatusFinal" THEN FALSE
    ELSE IF ~PA.optimisticEdge THEN TRUE
    ELSE allNonFinalIterationsDoNotExit(PA)

ApplyIsOnlyExitingIteration ==
    /\ fin.op = "none"
    /\ \E PA \in PeelAttempts : \E k \in 1..Len(PA.Iterations) :
          /\ fin' = [op |-> "exiting", PA |-> PA, k |-> k]
          /\ fout' = isOnlyExitingIteration(PA, k)
    /\ UNCHANGED <<PB, region, analyser, phase, cursor, walk, dead, enabled, deadEdges>>

\* AliasAnalysis::ModRefResult as the set of its bits (NoModRef is empty).
NoModRef == {}
ModRef == {"Mod", "Ref"}
ModRefResults == SUBSET ModRef
ModRefBehaviors ==
    {"DoesNotAccessMemory", "OnlyReadsMemory", "AccessesArguments", "UnknownModRefBehavior"}
MaxArgs == 2

\* AliasAnalysis::getCSModRefInfo: MRB is getModRefBehavior(CS), noAlias[i]
\* what isNoAlias answers for P and the call's argument i - 1, constMem what
\* pointsToConstantMemory(P) answers; chain.AA tells whether there is a next
\* analysis, chain.next is its answer.  The result, and the return taken.
getCSModRefInfo(MRB, noAlias, constMem, chain) ==
    LET doesAlias == Len(noAlias) > 0 /\ ~noAlias[1]
        Mask == IF MRB = "OnlyReadsMemory" THEN {"Ref"} ELSE ModRef
        Masked == IF "Mod" \in Mask /\ constMem THEN Mask \ {"Mod"} ELSE Mask
    IN  IF MRB = "DoesNotAccessMemory"
        THEN [MR |-> NoModRef, ground |-> "DoesNotAccessMemory"]
        ELSE IF MRB = "AccessesArguments" /\ ~doesAlias
        THEN [MR |-> NoModRef, ground |-> "AccessesArguments"]
        ELSE IF ~chain.AA THEN [MR |-> Masked, ground |-> "Mask"]
        ELSE [MR |-> chain.next \cap Masked, ground |-> "chain"]

\* IntegrationAttempt::callUsesPtr, StoreUsedWalker::shouldEnterCall
callUsesPtr(MR) == "Ref" \in MR

ModRefChains ==
    {[AA |-> FALSE, next |-> ModRef]} \cup {[AA |-> TRUE, next |-> n] : n \in ModRefResults}

ApplyCSModRefInfo ==
    /\ fin.op = "none"
    /\ \E MRB \in ModRefBehaviors, n \in 0..MaxArgs, constMem \in BOOLEAN,
          chain \in ModRefChains :
          \E noAlias \in [1..n -> BOOLEAN] :
             /\ fin' = [op |-> "getCSModRefInfo", MRB |-> MRB, noAlias |-> noAlias,
                        constMem |-> constMem, chain |-> chain]
             /\ fout' = [op |-> "getCSModRefInfo",
                         res |-> getCSModRefInfo(MRB, noAlias, constMem, chain),
                         uses |-> callUsesPtr(getCSModRefInfo(MRB, noAlias, constMem, chain).MR)]
    /\ UNCHANGED <<PB, region, analyser, phase, cursor, walk, dead, enabled, deadEdges>>

InitFold ==
    /\ PB = InitPB
    /\ region = "calls"
    /\ analyser = FALSE
    /\ phase = "free"
    /\ cursor = 0
    /\ fin = [op |-> "none"]
    /\ fout = [op |-> "none"]
    /\ walk = NoWalk
    /\ dead = NoneDead
    /\ enabled = AllEnabled
    /\ deadEdges = TerminatedEdges

NextFold ==
    \/ ApplyMerge \/ ApplyGEP \/ ApplyPointerCmp \/ ApplyNonConstCmp
    \/ ApplyIsOnlyExitingIteration \/ ApplyResult \/ ApplyCSModRefInfo

SpecFold == InitFold /\ [][NextFold]_vars

(***************************************************************************)
(* Properties of the evaluators applied on their own (SpecFold).           *)
(***************************************************************************)
\* C1: the merge is commutative, associative and idempotent on all lattice
\* values; Overdef absorbs; Unknown is the identity; two different concrete
\* categories give Overdef; two candidate sets are united and collapse to
\* Overdef past the threshold; and the loop that merges the operands of a
\* phi, select or call gives the same value in every order of its operands,
\* the join of them in the optimistic phase.
C1_MergeIsJoin ==
    fin.op = "merge" =>
       LET x == fin.x
           y == fin.y
           concrete(v) == isInitialised(v) /\ ~v.Overdef
           u == x.Values \cup y.Values
       IN  /\ fout.xy = fout.yx
           /\ fout.xy_z = fout.x_yz
           /\ fout.xx = x
           /\ (x.Overdef \/ y.Overdef) => fout.xy = OverdefPB
           /\ ~isInitialised(x) => fout.xy = y
           /\ (concrete(x) /\ concrete(y) /\ x.Type # y.Type) => fout.xy = OverdefPB
           /\ (x.Type = "PB" /\ y.Type = "PB") =>
                 fout.xy = IF Cardinality(u) > PBMAX THEN OverdefPB
                           ELSE [Type |-> "PB", Values |-> u, Overdef |-> FALSE]
           /\ \A f \in BOOLEAN : \A o1, o2 \in Orders3 : fout.loop[f][o1] = fout.loop[f][o2]
           /\ \A o \in Orders3 : fout.loop[FALSE][o].NewPB = fout.xy_z

\* C1 witness: two candidate sets whose union passes the threshold were merged
\* and gave Overdef.
C1_Witness ==
    /\ fin.op = "merge"
    /\ fin.x.Type = "PB" /\ fin.y.Type = "PB"
    /\ Cardinality(fin.x.Values \cup fin.y.Values) > PBMAX
    /\ fout.xy = OverdefPB
    /\ fin.z.Type = "PB" /\ fout.loop[FALSE][<<3, 2, 1>>].NewPB = OverdefPB

\* C16: isOnlyExitingIteration of an iteration is true exactly when the
\* iteration is final and the loop has no optimistic edge or every earlier
\* iteration has all of its exit edges dead; it is false for an iteration
\* that is not final.
C16_OnlyExitingIteration ==
    fin.op = "exiting" =>
       LET its == fin.PA.Iterations
           final == its[fin.k].iterStatus = "IterationStatusFinal"
       IN  /\ fout <=> /\ final
                       /\ \/ ~fin.PA.optimisticEdge
                          \/ \A i \in 1..(fin.k - 1) : its[i].allExitEdgesDead
           /\ ~final => ~fout

\* C16 witness: the third and final iteration of a loop with an optimistic
\* edge, whose own exit edge is live and whose predecessors cannot exit.
C16_Witness ==
    /\ fin.op = "exiting" /\ fin.PA.optimisticEdge
    /\ Len(fin.PA.Iterations) = 3 /\ fin.k = 3
    /\ fin.PA.Iterations[3].iterStatus = "IterationStatusFinal"
    /\ ~fin.PA.Iterations[3].allExitEdgesDead
    /\ fin.PA.Iterations[1].allExitEdgesDead /\ fin.PA.Iterations[2].allExitEdgesDead
    /\ fout

\* C23: a cast of a Resource-Handle or Pointer-Base operand passes the value
\* through unchanged when the cast preserves the width between integer and
\* pointer types, and gives Overdef when the cast changes the width; a Scalar
\* operand is never passed through but goes to ordinary constant folding.
C23_CastByWidth ==
    (fin.op = "result" /\ fin.I.op = "cast") =>
       LET bits(t) == IF t = "i8" THEN 8 ELSE IF t = "i32" THEN 32 ELSE 64
           op == fin.Ops[1]
       IN  /\ op.first \in {"FD", "PB"} =>
                 IF bits(fin.I.srcTy) = bits(fin.I.destTy)
                 THEN fout.ImpType = op.first /\ fout.Improved = op.second
                 ELSE fout.ImpType = "Overdef"
           /\ op.first = "Scalar" => fout = genericFold(fin.I, fin.Ops)

\* A comparison of a file descriptor with a ConstantInt.
C24_OpenCmp ==
    /\ fin.op = "result" /\ fin.I.op = "icmp"
    /\ (fin.Ops[1].first = "FD") # (fin.Ops[2].first = "FD")
    /\ \E i \in 1..2 : fin.Ops[i].first = "Scalar" /\ isConstantInt(fin.Ops[i].second.V)

\* C24: a comparison of a Resource-Handle with a constant integer is folded
\* with signed semantics, the predicate flipped when the handle is the
\* right-hand operand: whenever it folds to a constant b, b is the outcome of
\* the comparison for every handle value that is not negative, in both
\* operand orders; a constant wider than 64 bits, an unsigned predicate or an
\* inconclusive constant gives Overdef, never a wrong constant.
C24_OpenCmpSound ==
    C24_OpenCmp =>
       LET w == fin.I.width
           fdFirst == fin.Ops[1].first = "FD"
           n == IF fdFirst THEN fin.Ops[2].second.V[2] ELSE fin.Ops[1].second.V[2]
           concrete(h) == IF fdFirst THEN icmpFold(fin.I.pred, h, n, w)
                          ELSE icmpFold(fin.I.pred, n, h, w)
       IN  /\ fout.handled
           /\ fout.ImpType \in {"Scalar", "Overdef"}
           /\ fout.ImpType = "Scalar" =>
                 \A h \in 0..(2^(w - 1) - 1) : fout.Improved.V = BoolV(concrete(h))
           /\ (w > 64 \/ fin.I.pred \in {"UGT", "UGE", "ULT", "ULE"}) =>
                 fout.ImpType = "Overdef"

\* C24 witness: -1 s> fd, the handle on the right, folded to false.
C24_Witness ==
    /\ C24_OpenCmp
    /\ fin.I.pred = "SGT" /\ fin.I.width = MaxWidth
    /\ fin.Ops[1] = Operand("Scalar", CI(2^MaxWidth - 1), 0)
    /\ fout.ImpType = "Scalar" /\ fout.Improved.V = BoolV(FALSE)

\* A binary operator, one operand of which has no value, that no helper
\* folds and that is left to ordinary constant folding.
C26_GenericWithUnknown ==
    /\ fin.op = "result" /\ fin.I.op \in {"mul", "and"}
    /\ ~specialFold(fin.I, fin.Ops, fin.ThisVST).handled
    /\ \E i \in 1..2 : fin.Ops[i].first = "Unknown"
\* What the instruction's value is after tryEvaluateOrdinaryInst and getNewPB
\* in each phase, when it had none before.
C26_NewPB(finalise) == setOverdefIfFinal(finalise, mergeResult(Unknown, fout))

\* C26: in ordinary constant folding an instruction with at least one Unknown
\* operand stays Unknown in the optimistic phase, whatever the categories and
\* positions of its other operands, and becomes Overdef only in the
\* finalising phase.
C26_UnknownOperandKeepsUnknown ==
    C26_GenericWithUnknown =>
       /\ fout.ImpType = "Unknown"
       /\ C26_NewPB(FALSE) = Unknown
       /\ C26_NewPB(TRUE) = OverdefPB

\* C26, amended: in ordinary constant folding an instruction with at least
\* one Unknown operand stays Unknown in the optimistic phase and becomes
\* Overdef in the finalising phase provided each of its other operands is
\* Unknown, a Scalar or a pointer based on null; if any other operand, in
\* either position, is Overdef or of another category, the instruction is
\* Overdef at once, in the optimistic phase as well.
C26_UnknownUnlessGivenUp ==
    C26_GenericWithUnknown =>
       LET nullBased(op) == op.first = "PB" /\ op.second.V = NullV
           retry == \A i \in 1..2 :
                       fin.Ops[i].first \in {"Unknown", "Scalar"} \/ nullBased(fin.Ops[i])
       IN  IF retry
           THEN /\ fout.ImpType = "Unknown"
                /\ C26_NewPB(FALSE) = Unknown
                /\ C26_NewPB(TRUE) = OverdefPB
           ELSE /\ fout.ImpType = "Overdef"
                /\ C26_NewPB(FALSE) = OverdefPB
                /\ C26_NewPB(TRUE) = OverdefPB

\* C26 witness: a multiplication of an Unknown operand by an Overdef operand
\* is Overdef.
C26_Witness ==
    /\ C26_GenericWithUnknown
    /\ fin.I.op = "mul"
    /\ fin.Ops = <<UnknownOp, OverdefOp>>
    /\ fout.ImpType = "Overdef"

\* An integer addition or subtraction with a pointer operand.
C28_PtrAsInt ==
    /\ fin.op = "result" /\ fin.I.op \in {"add", "sub"}
    /\ \E i \in 1..2 : fin.Ops[i].first = "PB"

\* C28: pointer minus constant, and pointer plus constant with the pointer
\* in either position, is Pointer-Base on the same object with the offset
\* adjusted by the signed constant, or with the indeterminate offset if the
\* pointer's offset is indeterminate or the other operand is not a resolved
\* constant; pointer minus pointer on the same object with both offsets
\* resolved is the Scalar difference of the offsets, at the width of the
\* instruction; constant minus pointer, pointer plus pointer and any other
\* pointer difference are not folded by this rule.
C28_PointerArithmetic ==
    C28_PtrAsInt =>
       LET a == fin.Ops[1]
           b == fin.Ops[2]
           w == fin.I.width
           signed(op) == IF op.second.V[2] >= 2^(w - 1) THEN op.second.V[2] - 2^w
                         ELSE op.second.V[2]
           moved(ptr, num, sign) ==
              /\ fout.handled /\ fout.ImpType = "PB"
              /\ fout.Improved.V = ptr.second.V
              /\ fout.Improved.Offset =
                    IF ptr.second.Offset = LLONG_MAX \/ num.first # "Scalar" THEN LLONG_MAX
                    ELSE ptr.second.Offset + sign * signed(num)
           notFolded == ~tryFoldPtrAsIntOp(fin.I, fin.Ops, fin.ThisVST).handled
                        /\ fout.ImpType = "Overdef"
       IN  IF fin.I.op = "add"
           THEN IF a.first = "PB" /\ b.first = "PB" THEN notFolded
                ELSE IF a.first = "PB" THEN moved(a, b, 1) ELSE moved(b, a, 1)
           ELSE IF a.first # "PB" THEN notFolded
           ELSE IF b.first # "PB" THEN moved(a, b, -1)
           ELSE IF /\ a.second.V = b.second.V
                   /\ a.second.Offset # LLONG_MAX /\ b.second.Offset # LLONG_MAX
           THEN /\ fout.handled /\ fout.ImpType = "Scalar"
                /\ fout.Improved = ImprovedVal(CI((a.second.Offset - b.second.Offset) % 2^w), 0)
           ELSE notFolded

\* C28 witness: -1 + p, the pointer on the right at offset 4, is the same
\* object at offset 3.
C28_Witness ==
    /\ C28_PtrAsInt
    /\ fin.I.op = "add"
    /\ fin.Ops = <<Operand("Scalar", CI(2^MaxWidth - 1), 0), Operand("PB", AllocaV(1), 4)>>
    /\ fout.Improved = ImprovedVal(AllocaV(1), 3)

\* A GEP off the base of a variadic frame by a constant index.
C27_VarArgGEP ==
    /\ fin.op = "result" /\ fin.I.op = "gep"
    /\ fin.Ops[1] = Operand("VarArg", <<"vararg", 1>>, -2)
    /\ fin.Ops[2].first = "Scalar"

\* C27: a GEP on a VarArg-Slot base with a resolved constant index is a new
\* VarArg-Slot when the index lands in the modelled frame (8-byte slots 0..5
\* of the integer zone, slots 6..21 of the floating-point zone) and Overdef
\* when it runs outside the frame; its category is always one of VarArg-Slot,
\* Unknown and Overdef.
C27_VarArgSlotOrOverdef ==
    C27_VarArgGEP =>
       /\ fout.ImpType \in {"VarArg", "Unknown", "Overdef"}
       /\ IF fin.Ops[2].second.V[2] \div 8 < 22
          THEN fout.ImpType = "VarArg"
          ELSE fout.ImpType = "Overdef"

\* C30: for a call that accesses only its arguments, getCSModRefInfo returns
\* NoModRef on that ground only if the queried pointer is no-alias with every
\* argument of the call, whatever the argument's position.
C30_NoModRefOnlyIfNoArgumentAliases ==
    (fin.op = "getCSModRefInfo" /\ fout.res.ground = "AccessesArguments") =>
       \A i \in 1..Len(fin.noAlias) : fin.noAlias[i]

\* The join of the operands of a merge that have a value, taken two at a
\* time; Unknown when none has.
C17_JoinOfKnown ==
    LET x == fin.x
        y == fin.y
        z == fin.z
        k(v) == isInitialised(v)
    IN  IF k(x) /\ k(y) /\ k(z) THEN merge(merge(x, y), z)
        ELSE IF k(x) /\ k(y) THEN merge(x, y)
        ELSE IF k(x) /\ k(z) THEN merge(x, z)
        ELSE IF k(y) /\ k(z) THEN merge(y, z)
        ELSE IF k(x) THEN x
        ELSE IF k(y) THEN y
        ELSE IF k(z) THEN z
        ELSE Unknown

\* C17: the operand loop of a merge instruction, on any three operand
\* values in any order: in the optimistic phase the operands without a
\* value are skipped and the result is the join of the others, Unknown (and
\* no result reported) exactly when none has a value; in the finalising
\* phase an operand without a value makes the result Overdef.
C17_MergeSkipsOrForces ==
    fin.op = "merge" =>
       \A o \in Orders3 :
          /\ fout.loop[FALSE][o].NewPB = C17_JoinOfKnown
          /\ fout.loop[FALSE][o].ret
                <=> (isInitialised(fin.x) \/ isInitialised(fin.y) \/ isInitialised(fin.z))
          /\ (~isInitialised(fout.loop[FALSE][o].NewPB))
                <=> (~isInitialised(fin.x) /\ ~isInitialised(fin.y) /\ ~isInitialised(fin.z))
          /\ (~isInitialised(fin.x) \/ ~isInitialised(fin.y) \/ ~isInitialised(fin.z))
                => (fout.loop[TRUE][o].NewPB = OverdefPB /\ fout.loop[TRUE][o].ret)

\* C17 witness: the merge of an operand without a value and two operands
\* holding the scalar 0: that scalar in the optimistic phase, where the
\* operand without a value is read first, and Overdef when finalising, where
\* it is read last.
C17_Witness ==
    /\ fin.op = "merge"
    /\ fin.x = Unknown /\ fin.y = ScalarPB(0) /\ fin.z = ScalarPB(0)
    /\ fout.loop[FALSE][<<1, 2, 3>>].NewPB = ScalarPB(0)
    /\ fout.loop[TRUE][<<2, 3, 1>>].NewPB = OverdefPB

\* The offset a well-typed list of resolved indices adds to a pointer whose
\* pointee type is t, written out shape by shape from the layout: the first
\* index steps over whole pointees, an index into an array over elements, an
\* index into the struct S selects a field.
C8_Signed(op) == SExt(op.second.V[2], MaxWidth)
C8_Field(op) == <<0, 4, 8>>[op.second.V[2] + 1]
C8_Added(t, idx) ==
    LET sizeOf == [i32 |-> 4, S |-> 16, A |-> 16, AS |-> 32]
        first == C8_Signed(idx[1]) * sizeOf[t]
    IN  CASE Len(idx) = 1 -> first
          [] Len(idx) = 2 /\ t = "S" -> first + C8_Field(idx[2])
          [] Len(idx) = 2 /\ t = "A" -> first + C8_Signed(idx[2]) * 4
          [] Len(idx) = 2 /\ t = "AS" -> first + C8_Signed(idx[2]) * 16
          [] Len(idx) = 3 /\ t = "AS" -> first + C8_Signed(idx[2]) * 16 + C8_Field(idx[3])

C8_Resolved ==
    /\ fin.op = "gep"
    /\ fin.Ops[1].first = "PB"
    /\ fin.Ops[1].second.Offset # LLONG_MAX
    /\ \A i \in 2..Len(fin.Ops) : fin.Ops[i].first = "Scalar"

\* C8: a GEP on Pointer-Base(A, o) with o resolved and every index a resolved
\* Scalar yields Pointer-Base(A, o') with the same object A, o' being o plus
\* the field offset of every struct index and plus n times the element's
\* allocation size for every array or pointer index n read as signed (in the
\* offset's two's-complement width).
C8_GepAddsOffsets ==
    C8_Resolved =>
       /\ fout.ImpType = "PB"
       /\ fout.Improved.V = fin.Ops[1].second.V
       /\ fout.Improved.Offset =
             wrapOff(fin.Ops[1].second.Offset + C8_Added(fin.I.srcTy, Tail(fin.Ops)))

\* C8 witness: field 2 of S, placed at byte 8, from (A, 0) gave (A, 8).
C8_Witness ==
    /\ C8_Resolved
    /\ fin.I.srcTy = "S"
    /\ fin.Ops = <<Operand("PB", AllocaV(1), 0), Operand("Scalar", CI(0), 0),
                   Operand("Scalar", CI(2), 0)>>
    /\ fout.ImpType = "PB"
    /\ fout.Improved = ImprovedVal(AllocaV(1), 8)

C9_DistinctIdentified ==
    /\ fin.op = "ptrcmp"
    /\ fin.Ops[1].first = "PB" /\ fin.Ops[2].first = "PB"
    /\ fin.Ops[1].second.V[1] \in {"glob", "alloca"}
    /\ fin.Ops[2].second.V[1] \in {"glob", "alloca"}
    /\ fin.Ops[1].second.V # fin.Ops[2].second.V

\* C9: comparing two Pointer-Base values of two different identified objects
\* folds to Scalar false under == and to Scalar true under !=, whatever the
\* two offsets (the indeterminate one included); under every other predicate
\* the pointer-comparison rule leaves the comparison unresolved.
C9_DistinctObjectsDiffer ==
    C9_DistinctIdentified =>
       CASE fin.I.pred = "EQ" ->
               /\ fout.handled /\ fout.ImpType = "Scalar" /\ fout.Improved.V = CI(0)
         [] fin.I.pred = "NE" ->
               /\ fout.handled /\ fout.ImpType = "Scalar" /\ fout.Improved.V = CI(1)
         [] OTHER -> ~fout.handled /\ fout.ImpType = "Unknown"

\* C9 witness: two different objects at an indeterminate and at a resolved
\* offset compared under == gave false.
C9_Witness ==
    /\ C9_DistinctIdentified
    /\ fin.I.pred = "EQ"
    /\ fin.Ops[1].second.Offset = LLONG_MAX
    /\ fin.Ops[2].second.Offset = 4
    /\ fout.handled /\ fout.Improved.V = CI(0)

\* An integer inequality of which exactly one operand is a constant.
C10_OneConstant ==
    /\ fin.op = "cmp"
    /\ fin.I.pred \in IntPreds \ {"EQ", "NE"}
    /\ (fin.Ops[1].first = "Scalar") # (fin.Ops[2].first = "Scalar")
\* The comparison with the value v in the place of the operand that is not
\* a constant.
C10_Concrete(v) ==
    LET w == fin.I.width
        a == IF fin.Ops[1].first = "Scalar" THEN fin.Ops[1].second.V[2] ELSE v
        b == IF fin.Ops[2].first = "Scalar" THEN fin.Ops[2].second.V[2] ELSE v
        s(n) == IF n >= 2^(w - 1) THEN n - 2^w ELSE n
    IN  CASE fin.I.pred = "UGT" -> a > b
          [] fin.I.pred = "UGE" -> a >= b
          [] fin.I.pred = "ULT" -> a < b
          [] fin.I.pred = "ULE" -> a <= b
          [] fin.I.pred = "SGT" -> s(a) > s(b)
          [] fin.I.pred = "SGE" -> s(a) >= s(b)
          [] fin.I.pred = "SLT" -> s(a) < s(b)
          [] fin.I.pred = "SLE" -> s(a) <= s(b)

\* C10: an integer inequality with exactly one constant operand, in either
\* position, folds exactly when the comparison has the same outcome for every
\* value of the other operand at that width (the extremal cases), and then it
\* folds to that outcome; otherwise it is left unresolved.
C10_ExtremalCmp ==
    C10_OneConstant =>
       LET vals == 0..(2^fin.I.width - 1)
       IN  /\ fout.handled <=> (\A v1, v2 \in vals : C10_Concrete(v1) = C10_Concrete(v2))
           /\ fout.handled =>
                 /\ fout.ImpType = "Scalar"
                 /\ \A v \in vals : fout.Improved.V = CI(IF C10_Concrete(v) THEN 1 ELSE 0)
           /\ ~fout.handled => fout.ImpType = "Unknown"

\* C10 witness: 0 u> v with v unresolved (v u< 0 with the constant on the
\* left) folded to false.
C10_Witness ==
    /\ C10_OneConstant
    /\ fin.I.pred = "UGT"
    /\ fin.Ops[1] = Operand("Scalar", CI(0), 0)
    /\ fin.Ops[2] = UnknownOp
    /\ fout.handled /\ fout.Improved.V = CI(0)

(***************************************************************************)
(* Dead store elimination (DSE.cpp): tryKillWriterTo walks forward from a  *)
(* write along every path, carrying one bitmap per path with one flag per  *)
(* byte of the tracked write, or no bitmap when the size is unknown.       *)
(***************************************************************************)
MaxSize == 2      \* tracked writes are 1..MaxSize bytes long
MaxSteps == 2     \* instructions walked on one path

\* AliasAnalysis::UnknownSize, the length of a write whose size is not known.
UnknownSize == -1

TrackedSizes == (1..MaxSize) \cup {UnknownSize}

\* The null context pointer tryKillWriterTo passes for an unknown size.
NullCtx == [null |-> TRUE]

\* A context that is a vector with one flag per byte.
Bitmap(bytes) == [null |-> FALSE, bytes |-> bytes]

\* The bitmap tryKillWriterTo starts the walk with.
initialCtx(Size) ==
    IF Size # UnknownSize THEN Bitmap([i \in 0..(Size - 1) |-> FALSE]) ELSE NullCtx

\* The allocations a tracked pointer can be based on: an alloca of some
\* context, a malloc call of some context, or a global.
Allocs ==
    {[kind |-> "alloca", ctx |-> Root], [kind |-> "alloca", ctx |-> Inl],
     [kind |-> "alloca", ctx |-> Iter(0)], [kind |-> "malloc", ctx |-> Root],
     [kind |-> "global", ctx |-> Root]}

\* The function a context executes: an iteration belongs to its parent's.
getFunctionRoot(ctx) == IF isIter(ctx) THEN Root ELSE ctx

\* The bytes of the tracked write that a write to the same object defines.
GetDefinedRange(sameBase, StoreOffset, Size, WriteOffset, WriteSize) ==
    LET lo == IF StoreOffset > WriteOffset THEN StoreOffset ELSE WriteOffset
        e1 == StoreOffset + Size
        e2 == WriteOffset + WriteSize
        hi == IF e1 < e2 THEN e1 ELSE e2
    IN  IF sameBase /\ lo < hi
        THEN [FirstDef |-> lo - StoreOffset, FirstNotDef |-> hi - StoreOffset]
        ELSE [FirstDef |-> 0, FirstNotDef |-> 0]

\* The range of the tracked bytes DSEHandleWrite takes a write to define,
\* from the answer R of the alias query.
definedBy(W, StoreOffset, Size) ==
    IF W.R = "MayAlias"
    THEN GetDefinedRange(W.sameBase, StoreOffset, Size, W.off, W.size)
    ELSE IF W.R = "MustAlias"
    THEN [FirstDef |-> 0, FirstNotDef |-> IF W.size < Size THEN W.size ELSE Size]
    ELSE [FirstDef |-> 0, FirstNotDef |-> 0]

\* The loop of DSEHandleWrite: from byte 0 up, a byte of the range is
\* marked, a byte outside it that is not marked yet ends the loop.
RECURSIVE markBytes(_, _, _, _, _)
markBytes(deadBytes, i, Size, FirstDef, FirstNotDef) ==
    IF i >= Size
    THEN [Finished |-> TRUE, deadBytes |-> deadBytes]
    ELSE IF i >= FirstDef /\ i < FirstNotDef
    THEN markBytes([deadBytes EXCEPT ![i] = TRUE], i + 1, Size, FirstDef, FirstNotDef)
    ELSE IF ~deadBytes[i]
    THEN [Finished |-> FALSE, deadBytes |-> deadBytes]
    ELSE markBytes(deadBytes, i + 1, Size, FirstDef, FirstNotDef)

\* A faulty variant: a write to a tracked target of unknown size counts as
\* covering it whenever it must alias.
DSEHandleWriteNoNullCheck(W, Size, StoreOffset, deadBytes) ==
    IF deadBytes.null
    THEN [ret |-> W.R = "MustAlias", deadBytes |-> deadBytes]
    ELSE LET d == definedBy(W, StoreOffset, Size)
             m == markBytes(deadBytes.bytes, 0, Size, d.FirstDef, d.FirstNotDef)
         IN  IF d.FirstDef # d.FirstNotDef
             THEN [ret |-> m.Finished, deadBytes |-> Bitmap(m.deadBytes)]
             ELSE [ret |-> FALSE, deadBytes |-> deadBytes]

\* DSEHandleWrite: TRUE when the write completes the coverage of the tracked
\* bytes; the bitmap as the call leaves it.
DSEHandleWrite(W, Size, StoreOffset, deadBytes) ==
    IF deadBytes.null
    THEN [ret |-> FALSE, deadBytes |-> deadBytes]
    ELSE LET d == definedBy(W, StoreOffset, Size)
             m == markBytes(deadBytes.bytes, 0, Size, d.FirstDef, d.FirstNotDef)
         IN  IF d.FirstDef # d.FirstNotDef
             THEN [ret |-> m.Finished, deadBytes |-> Bitmap(m.deadBytes)]
             ELSE [ret |-> FALSE, deadBytes |-> deadBytes]

\* A faulty variant: any terminator without successors ends an alloca's
\* lifetime, whichever context it is walked in.
isLifetimeEndAnyReturn(this, AllocV, I) ==
    IF AllocV.kind = "alloca" THEN I.op = "ret"
    ELSE IF AllocV.kind = "malloc" THEN I.op = "free" /\ I.arg = AllocV
    ELSE FALSE

\* isLifetimeEnd: instruction I, walked in context this, ends the life of
\* the allocation.  "ret" is a terminator without successors, "br" one with.
isLifetimeEnd(this, AllocV, I) ==
    IF AllocV.kind = "alloca"
    THEN I.op \in {"ret", "br"}
         /\ I.op = "ret" /\ getFunctionRoot(AllocV.ctx) = this
    ELSE IF AllocV.kind = "malloc"
    THEN I.op = "free" /\ I.arg = AllocV
    ELSE FALSE

\* noteBytesWrittenBy: the effect of instruction I, walked in context this,
\* on the path whose bitmap is writtenBytes.  A memory transfer that is not
\* itself an unused writer reads its source.  A load stops the walk when its
\* value is unresolved, not available from the tracked pointer's context or
\* a vararg, and its address may alias the tracked pointer.
noteBytesWrittenBy(this, I, StoreBase, StoreOffset, Size, writtenBytes) ==
    LET h == DSEHandleWrite(I.W, Size, StoreOffset, writtenBytes)
        write == [Res |-> IF h.ret THEN "WIRStopThisPath" ELSE "WIRContinue",
                  Ctx |-> h.deadBytes]
        none(Res) == [Res |-> Res, Ctx |-> writtenBytes]
    IN  IF isLifetimeEnd(this, StoreBase, I)
        THEN none("WIRStopThisPath")
        ELSE IF I.op \in {"memset", "memcpy"}
        THEN IF I.op = "memcpy" /\ ~I.unused /\ I.srcR # "NoAlias"
             THEN none("WIRStopWholeWalk")
             ELSE IF I.W.size # UnknownSize THEN write ELSE none("WIRContinue")
        ELSE IF I.op = "call"
        THEN IF I.resolvedRead THEN write ELSE none("WIRContinue")
        ELSE IF I.op = "load"
        THEN IF I.res \in {"default", "unavailable", "vaarg"} /\ I.R # "NoAlias"
             THEN none("WIRStopWholeWalk")
             ELSE none("WIRContinue")
        ELSE IF I.op = "store"
        THEN write
        ELSE none("WIRContinue")

(***************************************************************************)
(* The instructions a walk meets.  The alias-query service is outside the  *)
(* analysis: its answer R is part of the instruction, and is any answer a  *)
(* sound service can give for the write's object, offset and size.  A      *)
(* store writes anywhere in the object; the other writes are to the         *)
(* tracked pointer or to another object.                                    *)
(***************************************************************************)
Insts(StoreOffset, Size) ==
    LET overlaps(W) ==
            /\ W.sameBase
            /\ \/ Size = UnknownSize \/ W.size = UnknownSize
               \/ (W.off < StoreOffset + Size /\ StoreOffset < W.off + W.size)
        Writes(sizes, offs) ==
            {W \in [sameBase : BOOLEAN, off : offs, size : sizes,
                    R : {"NoAlias", "MayAlias", "MustAlias"}] :
                /\ W.R = "MustAlias" => (W.sameBase /\ W.off = StoreOffset)
                /\ W.R = "NoAlias" => ~overlaps(W)
                /\ ~W.sameBase => W.off = StoreOffset}
        AtPointer(sizes) == Writes(sizes, {StoreOffset})
    IN  {[op |-> "store", W |-> W] : W \in Writes(1..MaxSize, 0..MaxSize)}
        \cup {[op |-> "memset", W |-> W] : W \in AtPointer(TrackedSizes)}
        \cup {[op |-> "memcpy", W |-> W, unused |-> u, srcR |-> r] :
                 W \in AtPointer(TrackedSizes), u \in BOOLEAN,
                 r \in {"NoAlias", "MayAlias"}}
        \cup {[op |-> "call", resolvedRead |-> TRUE, W |-> W] :
                 W \in AtPointer(1..MaxSize)}
        \cup {[op |-> "call", resolvedRead |-> FALSE]}
        \cup {[op |-> "load", res |-> v, R |-> r] :
                 v \in {"default", "resolved", "unavailable", "vaarg"},
                 r \in {"NoAlias", "MayAlias", "MustAlias"}}
        \cup {[op |-> "free", arg |-> a] :
                 a \in {[kind |-> "malloc", ctx |-> Root],
                        [kind |-> "malloc", ctx |-> Inl]}}
        \cup {[op |-> "ret"], [op |-> "br"], [op |-> "add"]}

\* The instructions DSEHandleWrite is called on.
isHandledWrite(I) ==
    \/ I.op = "store"
    \/ I.op = "memset" /\ I.W.size # UnknownSize
    \/ I.op = "memcpy" /\ I.W.size # UnknownSize /\ (I.unused \/ I.srcR = "NoAlias")
    \/ I.op = "call" /\ I.resolvedRead

\* The contexts an instruction is walked in: the root function and the
\* callee inlined into it.
WalkCtxs == {Root, Inl}

\* The bytes a handled write defines, as a set of byte indices.
rangeOf(I, StoreOffset, Size) ==
    IF isHandledWrite(I) /\ Size # UnknownSize
    THEN LET d == definedBy(I.W, StoreOffset, Size)
         IN  {i \in 0..(Size - 1) : i >= d.FirstDef /\ i < d.FirstNotDef}
    ELSE {}

(***************************************************************************)
(* One path of a walk: noteBytesWrittenBy applied to successive            *)
(* instructions on the path's bitmap, for as long as it answers            *)
(* WIRContinue.  walk.written is the union of the ranges that the writes   *)
(* met so far define; walk.last describes the latest step.                 *)
(***************************************************************************)
InitPath ==
    /\ PB = InitPB
    /\ region = "calls"
    /\ analyser = FALSE
    /\ phase = "free"
    /\ cursor = 0
    /\ fin = [op |-> "none"]
    /\ fout = [op |-> "none"]
    /\ dead = NoneDead
    /\ enabled = AllEnabled
    /\ deadEdges = TerminatedEdges
    /\ \E Size \in TrackedSizes, StoreBase \in Allocs, StoreOffset \in 0..1 :
          walk = [phase |-> "path", Size |-> Size, StoreBase |-> StoreBase,
                  StoreOffset |-> StoreOffset, Ctx |-> initialCtx(Size),
                  written |-> {}, steps |-> 0, Res |-> "WIRContinue",
                  last |-> [op |-> "none"]]

PathStep ==
    /\ walk.phase = "path"
    /\ walk.Res = "WIRContinue"
    /\ walk.steps < MaxSteps
    /\ \E I \in Insts(walk.StoreOffset, walk.Size) : \E this \in WalkCtxs :
          LET n == noteBytesWrittenBy(this, I, walk.StoreBase, walk.StoreOffset,
                                      walk.Size, walk.Ctx)
              w == walk.written \cup rangeOf(I, walk.StoreOffset, walk.Size)
          IN  walk' = [walk EXCEPT !.Ctx = n.Ctx, !.Res = n.Res, !.written = w,
                                   !.steps = @ + 1,
                                   !.last = [op |-> I.op, this |-> this,
                                             handled |-> isHandledWrite(I),
                                             arg |-> IF I.op = "free" THEN I.arg
                                                     ELSE [kind |-> "none", ctx |-> Root]]]
    /\ UNCHANGED <<PB, region, analyser, phase, cursor, fin, fout, dead, enabled, deadEdges>>

SpecPath == InitPath /\ [][PathStep]_vars

(***************************************************************************)
(* Properties of one path of a walk (SpecPath)                              *)
(***************************************************************************)
\* C18: on a path with a known tracked size, after every write handled by
\* DSEHandleWrite the bitmap holds exactly the union of the ranges written
\* so far, and the write ends the path as covered exactly when that union
\* holds every tracked byte, in whatever order the ranges were written.
C18_CoveredRegardlessOfOrder ==
    (walk.phase = "path" /\ walk.Size # UnknownSize /\ walk.last.op # "none"
        /\ walk.last.handled)
    => /\ walk.Res = "WIRStopThisPath" <=> walk.written = 0..(walk.Size - 1)
       /\ \A i \in 0..(walk.Size - 1) : walk.Ctx.bytes[i] <=> i \in walk.written

\* C19 as stated: with an unknown tracked length no write ends a path as
\* covered, and no path ends successfully at all, so that the walk cannot
\* establish deadness.
C19_UnknownSizeNeverSucceeds ==
    (walk.phase = "path" /\ walk.Size = UnknownSize)
    => /\ walk.last.op # "none" /\ walk.last.handled => walk.Res = "WIRContinue"
       /\ walk.Res # "WIRStopThisPath"

\* C19, amended: with an unknown tracked length the context stays null and
\* every write handled by DSEHandleWrite lets the path continue; a path ends
\* successfully only at the end of the tracked object's lifetime.
C19_UnknownSizeOnlyLifetimeEnd ==
    (walk.phase = "path" /\ walk.Size = UnknownSize)
    => /\ walk.Ctx = NullCtx
       /\ walk.last.op # "none" /\ walk.last.handled => walk.Res = "WIRContinue"
       /\ walk.Res = "WIRStopThisPath" => walk.last.op \in {"ret", "free"}

C19_Witness ==
    /\ walk.phase = "path" /\ walk.Size = UnknownSize
    /\ walk.steps = 2 /\ walk.last.op = "store" /\ walk.Res = "WIRContinue"

\* The end of the tracked object's lifetime, as the specification describes it.
C20_EndsLifetime ==
    \/ /\ walk.StoreBase.kind = "alloca"
       /\ walk.last.op = "ret"
       /\ walk.last.this = (IF isIter(walk.StoreBase.ctx) THEN Root
                            ELSE walk.StoreBase.ctx)
    \/ /\ walk.StoreBase.kind = "malloc"
       /\ walk.last.op = "free"
       /\ walk.last.arg = walk.StoreBase

\* C20: a return walked in the context that is the function root of a
\* tracked alloca's context, or a free of exactly the tracked malloc, ends the
\* path successfully whatever the bitmap holds; any other return or free
\* lets the path continue.
C20_LifetimeEndStopsPath ==
    (walk.phase = "path" /\ walk.last.op \in {"ret", "free"})
    => walk.Res = IF C20_EndsLifetime THEN "WIRStopThisPath" ELSE "WIRContinue"

C20_Witness ==
    /\ walk.phase = "path" /\ walk.StoreBase = [kind |-> "alloca", ctx |-> Iter(0)]
    /\ walk.last.op = "ret" /\ walk.last.this = Root
    /\ walk.Size = 2 /\ walk.Ctx.bytes[0] /\ ~walk.Ctx.bytes[1]
    /\ walk.Res = "WIRStopThisPath"

(***************************************************************************)
(* The whole walk of tryKillWriterTo.  The walker's driver                  *)
(* (ForwardIAWalker::walk) takes the head of its worklist, hands the next  *)
(* instruction of that path to walkInstruction and acts on the result: it  *)
(* goes on along the path, drops the path, or drops every path.  A path    *)
(* that runs into the exit of the program makes the write used.  A block   *)
(* with two successors forks the path, each side with its own copy of the  *)
(* bitmap.                                                                  *)
(*                                                                          *)
(* walkInstruction computes the result of noteBytesWrittenBy into a local  *)
(* and has no return statement: the value the driver receives is            *)
(* indeterminate, and the bitmap is the one noteBytesWrittenBy left.  It   *)
(* never assigns writeUsed.                                                 *)
(*                                                                          *)
(* Beside the walker's own fields the state records what happened on the   *)
(* way: stop (noteBytesWrittenBy asked to stop the whole walk), load (an   *)
(* unresolved load that may alias the tracked pointer was walked), plain   *)
(* (every instruction walked was an equal-sized store to the tracked       *)
(* pointer or touched no memory), unkilled (a path ended without having    *)
(* met such a store) and badEnd (a path ended otherwise than by             *)
(* noteBytesWrittenBy answering WIRStopThisPath).                           *)
(***************************************************************************)
MaxPaths == 2     \* paths of one walk

WalkInstructionResult == {"WIRContinue", "WIRStopThisPath", "WIRStopWholeWalk"}

InitDSE ==
    /\ PB = InitPB
    /\ region = "calls"
    /\ analyser = FALSE
    /\ phase = "free"
    /\ cursor = 0
    /\ fin = [op |-> "none"]
    /\ fout = [op |-> "none"]
    /\ dead = NoneDead
    /\ enabled = AllEnabled
    /\ deadEdges = TerminatedEdges
    /\ \E Size \in TrackedSizes, StoreBase \in Allocs :
          walk = [phase |-> "walking", Size |-> Size, StoreBase |-> StoreBase,
                  StoreOffset |-> 0,
                  paths |-> <<[Ctx |-> initialCtx(Size), steps |-> 0, killed |-> FALSE]>>,
                  made |-> 1, writeUsed |-> FALSE, WalkIAs |-> {},
                  unusedWriters |-> {}, ret |-> FALSE,
                  stop |-> FALSE, load |-> FALSE, plain |-> TRUE,
                  unkilled |-> FALSE, badEnd |-> FALSE]

\* The driver forks the head path at a block with two successors.
Fork ==
    /\ walk.phase = "walking"
    /\ walk.paths # <<>>
    /\ walk.made < MaxPaths
    /\ walk' = [walk EXCEPT !.paths = <<Head(walk.paths)>> \o walk.paths,
                            !.made = @ + 1]
    /\ UNCHANGED <<PB, region, analyser, phase, cursor, fin, fout, dead, enabled, deadEdges>>

\* One step of the driver on the head path: instruction I, walked in
\* context this, goes through walkInstruction; r is the value the driver
\* receives.  A return of the root function is the exit of the program, and
\* a path that has used up its steps has reached it.  The walk meets stores,
\* loads, memory transfers to the tracked pointer, frees, terminators and
\* instructions that touch no memory.
WalkInstruction ==
    /\ walk.phase = "walking"
    /\ walk.paths # <<>>
    /\ \E I \in {J \in Insts(walk.StoreOffset, walk.Size) :
                    J.op \notin {"memset", "call"}
                        /\ (J.op = "memcpy" => J.W.R = "MustAlias")} :
       \E this \in WalkCtxs : \E r \in WalkInstructionResult :
          LET p == Head(walk.paths)
              exit == I.op = "ret" /\ this = Root
              n == noteBytesWrittenBy(this, I, walk.StoreBase, walk.StoreOffset,
                                      walk.Size, p.Ctx)
              kills == I.op = "store" /\ I.W.R = "MustAlias" /\ I.W.size = walk.Size
              killed == p.killed \/ kills
              q == [Ctx |-> n.Ctx, steps |-> p.steps + 1, killed |-> killed]
              ends == r # "WIRContinue" \/ exit
          IN  /\ p.steps < MaxSteps \/ exit
              /\ walk' = [walk EXCEPT
                    !.WalkIAs = @ \cup {this},
                    !.paths = IF r = "WIRStopWholeWalk" THEN <<>>
                              ELSE IF ends THEN Tail(walk.paths)
                              ELSE <<q>> \o Tail(walk.paths),
                    !.writeUsed = @ \/ (r = "WIRContinue" /\ exit),
                    !.stop = @ \/ n.Res = "WIRStopWholeWalk",
                    !.load = @ \/ (I.op = "load" /\ I.res = "default"
                                      /\ I.R # "NoAlias"),
                    !.plain = @ /\ (kills \/ I.op \in {"add", "br", "ret"}),
                    !.unkilled = @ \/ (ends /\ ~killed)
                                   \/ (r = "WIRStopWholeWalk"
                                          /\ \E j \in 2..Len(walk.paths) :
                                                ~walk.paths[j].killed),
                    !.badEnd = @ \/ (ends /\ n.Res # "WIRStopThisPath")
                                 \/ (r = "WIRStopWholeWalk" /\ Len(walk.paths) > 1)]
    /\ UNCHANGED <<PB, region, analyser, phase, cursor, fin, fout, dead, enabled, deadEdges>>

\* The end of tryKillWriterTo, once the walk is over.
KillWriter ==
    /\ walk.phase = "walking"
    /\ walk.paths = <<>>
    /\ walk' = [walk EXCEPT !.phase = "returned",
                            !.unusedWriters = IF ~walk.writeUsed THEN {"Writer"} ELSE {},
                            !.ret = ~walk.writeUsed]
    /\ UNCHANGED <<PB, region, analyser, phase, cursor, fin, fout, dead, enabled, deadEdges>>

NextDSE == Fork \/ WalkInstruction \/ KillWriter

SpecDSE == InitDSE /\ [][NextDSE]_vars

C12_UnresolvedLoadMakesUsed ==
    (walk.phase = "returned" /\ walk.load)
    => (~walk.ret /\ "Writer" \notin walk.unusedWriters)

\* C13: the writer is recorded as unused only if every path ended by
\* coverage or lifetime end and no step of the walk asked to stop the whole
\* walk.
C13_DeadOnlyIfAllPathsEnded ==
    (walk.phase = "returned" /\ "Writer" \in walk.unusedWriters)
    => (~walk.stop /\ ~walk.badEnd)

(***************************************************************************)
(* The context tree's dead flags under any sequence of markContextDead     *)
(* calls.                                                                   *)
(***************************************************************************)
InitTree ==
    /\ PB = InitPB
    /\ region = "calls"
    /\ analyser = FALSE
    /\ phase = "free"
    /\ cursor = 0
    /\ fin = [op |-> "none"]
    /\ fout = [op |-> "none"]
    /\ walk = NoWalk
    /\ dead = NoneDead
    /\ enabled = AllEnabled
    /\ deadEdges = TerminatedEdges

MarkContextDead ==
    /\ \E c \in TreeCtxs : dead' = markContextDead(dead, c)
    /\ UNCHANGED <<PB, region, analyser, phase, cursor, fin, fout, walk, enabled, deadEdges>>

SpecTree == InitTree /\ [][MarkContextDead]_vars

\* The subtree of context c: the contexts whose path starts with c's.
C14_Subtree(c) ==
    {n \in TreeCtxs : Len(n) >= Len(c) /\ \A i \in 1..Len(c) : n[i] = c[i]}

\* C14: every markContextDead call is a call on some context c after which
\* c and every context of its subtree is dead and every context outside the
\* subtree has the flag it had; no call clears a flag.
C14_MarksSubtree ==
    [][/\ \A n \in TreeCtxs : dead[n] => dead'[n]
       /\ \E c \in TreeCtxs :
             /\ \A n \in C14_Subtree(c) : dead'[n]
             /\ \A n \in TreeCtxs \ C14_Subtree(c) : dead'[n] = dead[n]]_vars

\* C14 witness: after a call on the first iteration of the root's loop, that
\* iteration, its inlined call and the iterations of its nested loop are
\* dead, and the root and the root's inlined call are not.
C14_Witness ==
    /\ \A n \in TreeCtxs : dead[n] <=> n \in C14_Subtree(<<<<"it", 0>>>>)
    /\ dead[<<<<"it", 0>>, <<"it", 1>>>>] /\ dead[<<<<"it", 0>>, <<"call", 0>>>>]


(***************************************************************************)
(* The enabled flags.  IntHeuristicsModel::SetValue is the only caller of  *)
(* setEnabled; it runs from the tree view, before an analysis run starts.  *)
(* An analysis run of the two-phase solver may be followed by a second one *)
(* over the same program and context tree, whose result is compared with   *)
(* the first one's.                                                        *)
(***************************************************************************)
InitToggle == InitDriver

\* IntHeuristicsModel::SetValue(val, item, column).  The root inline attempt
\* cannot be disabled.
SetValue ==
    /\ phase = "optimistic" /\ PB = InitPB
    /\ \E column \in {0, 3} :
       \E tag \in {[type |-> "null"], [type |-> "IntegratorTypePA"],
                   [type |-> "IntegratorTypeIA", ptr |-> Root],
                   [type |-> "IntegratorTypeIA", ptr |-> Inl]} :
       \E val \in BOOLEAN :
          LET canDisable == tag.ptr # Root
          IN  IF column # 3 \/ tag.type = "null"
              THEN /\ fin' = [op |-> "SetValue", ret |-> FALSE]
                   /\ enabled' = enabled
              ELSE /\ fin' = [op |-> "SetValue", ret |-> TRUE]
                   /\ enabled' =
                         IF tag.type = "IntegratorTypePA"
                         THEN [enabled EXCEPT !.pa = val]
                         ELSE IF canDisable /\ enabled.ia # val
                              THEN [enabled EXCEPT !.ia = val]
                              ELSE enabled
    /\ UNCHANGED <<PB, region, analyser, phase, cursor, fout, walk, dead, deadEdges>>

\* A second analysis run starts from an empty cache; the result of the first
\* and the flags it ran under are kept for comparison.
Rerun ==
    /\ phase = "done"
    /\ fout.op = "none"
    /\ fout' = [op |-> "first", PB |-> PB, enabled |-> enabled]
    /\ PB' = InitPB
    /\ phase' = "optimistic"
    /\ cursor' = 0
    /\ UNCHANGED <<region, analyser, fin, walk, dead, enabled, deadEdges>>

NextToggle == SetValue \/ Rerun \/ Optimistic \/ StartFinalise \/ Finalise

SpecToggle == InitToggle /\ [][NextToggle]_vars

\* C15: two analysis runs over the same program and the same context tree
\* that differ only in the enabled flags resolve every instruction to the
\* same lattice value.
C15_TogglesDoNotChangeValues ==
    (phase = "done" /\ fout.op = "first") =>
       \A ctx \in Ctxs : \A name \in ValuesOf(ctx) : PB[ctx][name] = fout.PB[ctx][name]


(***************************************************************************)
(* The allocations of F under any sequence of tryEvaluate calls.           *)
(***************************************************************************)
InitAlloc ==
    /\ PB = InitPB
    /\ region = "allocs"
    /\ analyser = FALSE
    /\ phase = "free"
    /\ cursor = 0
    /\ fin = [op |-> "none"]
    /\ fout = [op |-> "none"]
    /\ walk = NoWalk
    /\ dead = NoneDead
    /\ enabled = AllEnabled
    /\ deadEdges = TerminatedEdges

SpecAlloc == InitAlloc /\ [][Next]_vars

\* C25: an allocation instruction, and every call returning a fresh object,
\* resolves to Pointer-Base referencing itself at offset 0 whenever it is
\* evaluated, whatever the state of its operands, in either phase, and
\* whether or not the call has an inline attempt.
C25_AllocResolvesToItself ==
    [][\A name \in {"k", "h", "w"} :
          PB'[Root][name] # PB[Root][name] =>
             PB'[Root][name] = PtrPB(Inst(name).self, 0)]_vars

\* C25, amended: an allocation instruction, and a call returning a fresh
\* object that has no inline attempt, resolves to Pointer-Base referencing
\* itself at offset 0, whatever the state of its operands and in either
\* phase; a call returning a fresh object that has an inline attempt is a
\* merge of the inlined function's live return values like any other inlined
\* call.
C25_AllocUnlessInlined ==
    \A finalise \in BOOLEAN :
       /\ \A name \in {"k", "h"} :
             getNewPB(Root, name, finalise) = Got(TRUE, PtrPB(Inst(name).self, 0))
       /\ getNewPB(InlW, "y", finalise) = Got(TRUE, PtrPB(Inst("y").self, 0))
       /\ getNewPB(Root, "w", finalise) =
             GotPB(mergeLoop(<<PB[InlW]["y"]>>, finalise, Unknown, FALSE).NewPB)

\* C25 witness: the allocation k and the call h are resolved to themselves
\* while their operand u is Overdef, and the inlined call w is resolved to
\* the allocation y of the inlined function.
C25_Witness ==
    /\ PB[Root]["u"] = OverdefPB
    /\ PB[Root]["k"] = PtrPB(AllocaV(11), 0)
    /\ PB[Root]["h"] = PtrPB(AllocaV(12), 0)
    /\ PB[Root]["w"] = PtrPB(AllocaV(14), 0)

(***************************************************************************)
(* The merges of F and the exit phi of L under any sequence of tryEvaluate *)
(* calls, for every set of dead edges the run may find: the branch         *)
(* analysis may have killed either edge into join and the exit edge of any *)
(* iteration but the last, and the peel attempt of L may have been         *)
(* disabled before the run.                                                *)
(***************************************************************************)
EdgeChoices(r) ==
    IF r = "calls"
    THEN {<<Root, "left", "join">>, <<Root, "right", "join">>}
    ELSE {<<Iter(k), "latch", "exit">> : k \in 0..(NumIters - 2)}

InitEdges ==
    /\ PB = InitPB
    /\ region \in Regions
    /\ analyser = FALSE
    /\ phase = "free"
    /\ cursor = 0
    /\ fin = [op |-> "none"]
    /\ fout = [op |-> "none"]
    /\ walk = NoWalk
    /\ dead = NoneDead
    /\ enabled \in {AllEnabled, [pa |-> FALSE, ia |-> TRUE]}
    /\ \E D \in SUBSET EdgeChoices(region) :
          deadEdges = D \cup {<<Iter(NumIters - 1), "latch", "hdr">>}

SpecEdges == InitEdges /\ [][Next]_vars

\* The values of n in the iterations of L whose exit edge is live, in the
\* order of the iterations.
liveExitValues ==
    LET exits(it) == ~edgeIsDead(it, "latch", "exit")
        live == SelectSeq(Iterations(Root, "L"), exits)
    IN  [i \in 1..Len(live) |-> <<"v", live[i], "n">>]

\* C21: the operand of the exit phi e, defined inside the exited loop L, is
\* resolved by rising through every iteration of L's terminated peel
\* attempt: e has one operand per iteration whose exit edge is live, and its
\* value is their merge.
C21_ExitPHIRises ==
    /\ getExitPHIOperands(Root, Inst("e"), 1) = liveExitValues
    /\ \A finalise \in BOOLEAN :
          tryEvaluateMerge(Root, "e", finalise) =
             mergeLoop(resolveAll(liveExitValues), finalise, Unknown, FALSE)

\* The operands of a merge of the root that arrive over a live edge: those of
\* the live edges into join, and for the exit phi of L those of the
\* iterations with a live exit edge (the root's own n when the peel attempt
\* is not used).
liveOperands(name) ==
    LET SI == Inst(name)
        from(i) == IF edgeIsDead(Root, SI.ops[i + 1][3], SI.bb) THEN <<>>
                   ELSE <<getOperand(Root, SI.ops[i])>>
    IN  IF name = "e"
        THEN IF edgeIsDead(Root, "latch", "exit") THEN <<>>
             ELSE IF enabled.pa THEN liveExitValues
             ELSE <<<<"v", Root, "n">>>>
        ELSE from(1) \o from(3)

\* C22: an operand of a merge that arrives over a dead edge is excluded from
\* the merge, for a local predecessor and for a predecessor reached by
\* rising into the iterations of a loop: in either phase the merge is the
\* merge of the operands that arrive over live edges, whatever value the
\* other operands have or lack.
C22_DeadEdgeExcluded ==
    \A name \in {"m", "t", "e"} : \A finalise \in BOOLEAN :
       tryEvaluateMerge(Root, name, finalise) =
          mergeLoop(resolveAll(liveOperands(name)), finalise, Unknown, FALSE)

\* C22 witness: the exit edge of the first iteration is dead and its n is 7,
\* the last iteration's n is 9, and the exit phi was resolved to 9.
C22_Witness ==
    /\ edgeIsDead(Iter(0), "latch", "exit")
    /\ enabled.pa
    /\ PB[Iter(0)]["n"] = ScalarPB(7)
    /\ PB[Iter(NumIters - 1)]["n"] = ScalarPB(2 * NumIters + 5)
    /\ PB[Root]["e"] = ScalarPB(2 * NumIters + 5)

(***************************************************************************)
(* The two-phase solver as a loop that always takes its next step, started *)
(* on any part of the program, the loop that has not been peeled included: *)
(* there the header phi p and the latch's n depend on each other.          *)
(***************************************************************************)
InitTerm ==
    /\ PB = InitPB
    /\ region \in Regions \cup {"unpeeled"}
    /\ analyser \in BOOLEAN
    /\ phase = "optimistic"
    /\ cursor = 0
    /\ fin = [op |-> "none"]
    /\ fout = [op |-> "none"]
    /\ walk = NoWalk
    /\ dead = NoneDead
    /\ enabled = AllEnabled
    /\ deadEdges = TerminatedEdges

SpecTerm == InitTerm /\ [][NextDriver]_vars /\ WF_vars(NextDriver)

\* How far a value is from Overdef: a value without information is furthest,
\* then the candidate sets by size.
rankOf(pb) ==
    IF pb.Overdef THEN 0
    ELSE IF ~isInitialised(pb) THEN PBMAX + 1
    ELSE PBMAX + 1 - Cardinality(pb.Values)
\* The sum of rankOf over the first i values of the work order under cache P.
RECURSIVE rankSum(_, _)
rankSum(P, i) ==
    IF i = 0 THEN 0
    ELSE rankOf(P[WorkOrder(region)[i][1]][WorkOrder(region)[i][2]]) + rankSum(P, i - 1)

\* The optimistic phase ends: the solver, which always takes its next step,
\* reaches a state where evaluating any value of its work changes nothing.
OptimisticPhaseEnds == <>(phase = "optimistic" /\ converged)

\* C29: the optimistic phase terminates and no value oscillates: every
\* tryEvaluate call of the optimistic phase that changes a cached value
\* moves the cache strictly down a measure that is a natural number, so
\* after at most that many changes a full pass changes nothing.
C29_OptimisticTerminates ==
    [][(phase = "optimistic" /\ PB' # PB) =>
          rankSum(PB', Len(WorkOrder(region))) < rankSum(PB, Len(WorkOrder(region)))]_vars

\* C29 witness: the optimistic phase has converged on the loop that has not
\* been peeled, whose header phi p merged 5 with the latch's 7 to Overdef and
\* whose n followed.
C29_Witness ==
    /\ region = "unpeeled"
    /\ phase = "optimistic"
    /\ converged
    /\ PB[Root]["p"] = OverdefPB
    /\ PB[Root]["n"] = OverdefPB

====
